---- MODULE Spec2Model ----
(***************************************************************************)
(* Model of deploy-cloudformation-stacks/deploy_with_lambda_call.py:       *)
(* prepare_messages (dependency graph, topological generations) and deploy *)
(* (generation-by-generation dispatch over a thread pool).                 *)
(***************************************************************************)
EXTENDS Integers, Sequences, FiniteSets, TLC

(***************************************************************************)
(* Bounds and universes                                                    *)
(***************************************************************************)
\* the stacks of a configuration, in the order of config["stacks"]
StackOrder == <<"a", "b", "c", "d">>
StackNames == {StackOrder[k] : k \in 1..Len(StackOrder)}
\* a dependency name that is no stack of the configuration
UnknownName == "x"
DepNames == StackNames \cup {UnknownName}
\* total number of dependency entries in the configuration
MaxEdges == 2

None == "None"

\* ENVIRONMENT_PRIORITY, and the environment of the configuration
ENVIRONMENT_PRIORITY == <<"development", "staging", "production", "devops">>
Environment == "development"
\* A name is the sequence of the parts that its hyphens separate:
\* <<"a", "staging">> is "a-staging".  The stack_name of every stack of the
\* configuration; the base name of stack c ends in the name of an environment
BaseName == [s \in StackNames |->
                IF s = "c" THEN <<"a", "staging">> ELSE <<s>>]
\* no stack_name argument (None)
NoFilter == <<>>

(***************************************************************************)
(* Small helpers                                                           *)
(***************************************************************************)
Range(seq) == {seq[k] : k \in 1..Len(seq)}

RECURSIVE Reverse(_)
Reverse(seq) == IF seq = <<>> THEN <<>>
                ELSE Append(Reverse(Tail(seq)), Head(seq))

RECURSIVE Flatten(_)
Flatten(seqs) == IF seqs = <<>> THEN <<>>
                 ELSE Head(seqs) \o Flatten(Tail(seqs))

\* the dependency list of stack s in an edge list es (pairs <<stack, dep>>)
RECURSIVE DepsOf(_, _)
DepsOf(es, s) == IF es = <<>> THEN <<>>
                 ELSE IF Head(es)[1] = s
                      THEN <<Head(es)[2]>> \o DepsOf(Tail(es), s)
                      ELSE DepsOf(Tail(es), s)

(***************************************************************************)
(* networkx.DiGraph as used by prepare_messages: nodes in insertion order, *)
(* adjacency lists (successors) in insertion order.                        *)
(***************************************************************************)
EmptyGraph == [nodes |-> <<>>, adj |-> [n \in DepNames |-> <<>>]]

AddNode(g, n) == IF n \in Range(g.nodes) THEN g
                 ELSE [g EXCEPT !.nodes = Append(@, n)]

\* mutant: the edge points from the dependency to the dependent stack
AddEdge_Reversed(g, u, v) ==
    LET g1 == AddNode(AddNode(g, u), v)
    IN  IF u \in Range(g1.adj[v]) THEN g1
        ELSE [g1 EXCEPT !.adj[v] = Append(@, u)]

AddEdge(g, u, v) ==
    LET g1 == AddNode(AddNode(g, u), v)
    IN  IF v \in Range(g1.adj[u]) THEN g1
        ELSE [g1 EXCEPT !.adj[u] = Append(@, v)]

InDegree(g, n) == Cardinality({m \in Range(g.nodes) : n \in Range(g.adj[m])})

\* nx.descendants: every node reachable from n by at least one edge, without n
RECURSIVE Reach(_, _)
Reach(g, seen) ==
    LET next == seen \cup UNION {Range(g.adj[m]) : m \in seen}
    IN  IF next = seen THEN seen ELSE Reach(g, next)

Descendants(g, n) == Reach(g, Range(g.adj[n])) \ {n}

(***************************************************************************)
(* nx.topological_generations (Kahn layering): the first generation holds  *)
(* the nodes of in-degree 0; a node joins the generation after the one     *)
(* that removes its last incoming edge.  Nodes left with a positive        *)
(* in-degree mean a cycle (NetworkXUnfeasible).                            *)
(***************************************************************************)
\* one pass over the children of a generation: [indeg, next]
RECURSIVE Relax(_, _, _)
Relax(children, indeg, next) ==
    IF children = <<>> THEN [indeg |-> indeg, next |-> next]
    ELSE LET c  == Head(children)
             d1 == [indeg EXCEPT ![c] = @ - 1]
         IN  Relax(Tail(children), d1,
                   IF d1[c] = 0 THEN Append(next, c) ELSE next)

RECURSIVE TopoLoop(_, _, _, _)
TopoLoop(g, this, indeg, acc) ==
    IF this = <<>>
    THEN [unfeasible |-> \E n \in Range(g.nodes) : indeg[n] > 0, gens |-> acc]
    ELSE LET children == Flatten([k \in 1..Len(this) |-> g.adj[this[k]]])
             r == Relax(children, indeg, <<>>)
         IN  TopoLoop(g, r.next, r.indeg, Append(acc, this))

TopologicalGenerations(g) ==
    LET indeg == [n \in DepNames |-> InDegree(g, n)]
        zero  == SelectSeq(g.nodes, LAMBDA n : indeg[n] = 0)
    IN  TopoLoop(g, zero, indeg, <<>>)

(***************************************************************************)
(* prepare_messages                                                        *)
(* A configuration is [deps, disabled, createFails]: deps[s] is the        *)
(* dependencies list of stack s, disabled the stacks with disabled: true,  *)
(* createFails the stacks for which create_message raises (template or     *)
(* parameter error).                                                       *)
(***************************************************************************)
NoError == [type |-> "none", stack |-> None, names |-> {}]
ConfigError(s) == [type |-> "create_message", stack |-> s, names |-> {}]
DepNotFound(d) == [type |-> "dependency_not_found", stack |-> None, names |-> {d}]
DepDisabled(s, d) == [type |-> "depends_on_disabled", stack |-> s, names |-> {d}]
CycleError == [type |-> "cycle", stack |-> None, names |-> {}]

\* the set stack_names: every stack of the configuration, disabled or not
AllStackNames(cfg) == StackNames
DisabledStackNames(cfg) == cfg.disabled

\* mutant: a dependency on a disabled stack is not checked
RECURSIVE AddDependencies_NoDisabledCheck(_, _, _, _)
AddDependencies_NoDisabledCheck(cfg, s, j, g) ==
    IF j > Len(cfg.deps[s]) THEN [err |-> NoError, graph |-> g]
    ELSE LET d == cfg.deps[s][j]
         IN  IF d \notin AllStackNames(cfg)
             THEN [err |-> DepNotFound(d), graph |-> g]
             ELSE AddDependencies_NoDisabledCheck(cfg, s, j + 1, AddEdge(g, s, d))

\* the inner loop over stack["dependencies"], from entry j on
RECURSIVE AddDependencies(_, _, _, _)
AddDependencies(cfg, s, j, g) ==
    IF j > Len(cfg.deps[s]) THEN [err |-> NoError, graph |-> g]
    ELSE LET d == cfg.deps[s][j]
         IN  IF d \notin AllStackNames(cfg)
             THEN [err |-> DepNotFound(d), graph |-> g]
             ELSE IF d \in DisabledStackNames(cfg)
             THEN [err |-> DepDisabled(s, d), graph |-> g]
             ELSE AddDependencies(cfg, s, j + 1, AddEdge(g, s, d))

\* mutant: a disabled stack gets a message too
HasMessage_Always(cfg, s) == TRUE

\* create_message returns a message unless the stack is disabled
HasMessage(cfg, s) == s \notin cfg.disabled

\* mutant: a stack for which create_message raises is left out
RECURSIVE BuildGraph_SkipFailedStack(_, _, _, _)
BuildGraph_SkipFailedStack(cfg, k, g, retval) ==
    IF k > Len(StackOrder) THEN [err |-> NoError, graph |-> g, retval |-> retval]
    ELSE LET s  == StackOrder[k]
             g1 == AddNode(g, s)
         IN  IF s \in cfg.createFails
             THEN BuildGraph_SkipFailedStack(cfg, k + 1, g1, retval)
             ELSE LET rv == IF s \notin cfg.disabled THEN Append(retval, s) ELSE retval
                      r  == AddDependencies(cfg, s, 1, g1)
                  IN  IF r.err # NoError
                      THEN [err |-> r.err, graph |-> r.graph, retval |-> rv]
                      ELSE BuildGraph_SkipFailedStack(cfg, k + 1, r.graph, rv)

\* the loop over config["stacks"], from stack k on
RECURSIVE BuildGraph(_, _, _, _)
BuildGraph(cfg, k, g, retval) ==
    IF k > Len(StackOrder) THEN [err |-> NoError, graph |-> g, retval |-> retval]
    ELSE LET s  == StackOrder[k]
             g1 == AddNode(g, s)
         IN  IF s \in cfg.createFails
             THEN [err |-> ConfigError(s), graph |-> g1, retval |-> retval]
             ELSE LET rv == IF HasMessage(cfg, s) THEN Append(retval, s) ELSE retval
                      r  == AddDependencies(cfg, s, 1, g1)
                  IN  IF r.err # NoError
                      THEN [err |-> r.err, graph |-> r.graph, retval |-> rv]
                      ELSE BuildGraph(cfg, k + 1, r.graph, rv)

\* mutant: the generations are not reversed
SortByGeneration_NotReversed(generations, retval) ==
    [k \in 1..Len(generations) |->
        SelectSeq(generations[k], LAMBDA n : n \in Range(retval))]

\* messages sorted by reversed topological generations; a node without a
\* message (a disabled stack) leaves no entry in its generation
SortByGeneration(generations, retval) ==
    LET rev == Reverse(generations)
    IN  [k \in 1..Len(rev) |-> SelectSeq(rev[k], LAMBDA n : n \in Range(retval))]

\* mutant: a cycle in the graph goes unnoticed
PrepareMessages_NoCycleError(cfg) ==
    LET b == BuildGraph(cfg, 1, EmptyGraph, <<>>)
        t == TopologicalGenerations(b.graph)
    IN  IF b.err # NoError
        THEN [err |-> b.err, generations |-> <<>>, graph |-> b.graph]
        ELSE [err |-> NoError,
              generations |-> SortByGeneration(t.gens, b.retval),
              graph |-> b.graph]

PrepareMessages(cfg) ==
    LET b == BuildGraph(cfg, 1, EmptyGraph, <<>>)
        t == TopologicalGenerations(b.graph)
    IN  IF b.err # NoError
        THEN [err |-> b.err, generations |-> <<>>, graph |-> b.graph]
        ELSE IF t.unfeasible
        THEN [err |-> CycleError, generations |-> <<>>, graph |-> b.graph]
        ELSE [err |-> NoError,
              generations |-> SortByGeneration(t.gens, b.retval),
              graph |-> b.graph]

(***************************************************************************)
(* deploy: state                                                           *)
(***************************************************************************)
VARIABLES
    command,              \* the command of the command line: deploy or dump
    config,               \* the configuration handed to the command
    stack_name_arg,       \* the stack_name argument (NoFilter: none given)
    pc,                   \* position of the main thread in deploy
    message_generations,  \* first result of prepare_messages
    dependency_graph,     \* second result of prepare_messages
    stack_name,           \* the filter after resolution (None: no filter)
    i,                    \* index of the generation of the for loop
    task,                 \* per stack: state of its deploy_stack future
    response,             \* per stack: the result its future holds (payload kind)
    successful_stacks,    \* set
    failed_stacks,        \* list
    dispatch_log,         \* history: <<stack, generation, name>> of every submit
    result,               \* how the command ended
    dumped,               \* history: the name of every stack do_dump processed
    args,                 \* the function under study: its arguments and locals
    ret,                  \* what its calls returned, one entry per call
    data,                 \* VersionsFileUpdater.data
    versions_file         \* the file at VersionsFileUpdater.versions_file_path

vars == <<command, config, stack_name_arg, pc, message_generations, dependency_graph,
          stack_name, i, task, response, successful_stacks, failed_stacks,
          dispatch_log, result, dumped, args, ret, data, versions_file>>

\* the state of the commands deploy and dump
commandVars == <<command, config, stack_name_arg, pc, message_generations, dependency_graph,
                 stack_name, i, task, response, successful_stacks, failed_stacks,
                 dispatch_log, result, dumped>>
\* the state of a function studied on its own
callVars == <<args, ret>>
\* the state of a VersionsFileUpdater
updaterVars == <<data, versions_file>>
\* no VersionsFileUpdater exists
NoUpdater ==
    /\ data = None
    /\ versions_file = None

\* what the worker's response body can be, by what the as_completed loop does
\* with it (PayloadClass below): its items are objects none of which has status
\* error, one of them has status error, or reading the statuses raises
Payloads == {"ok_list", "error_item", "not_a_list"}

DependencyNotDeployed(s, missing) ==
    [type |-> "dependency_not_deployed", stack |-> s, names |-> missing]
StackNotFound(f) == [type |-> "stack_not_found", stack |-> None, names |-> {}]
SystemExit(code) == [type |-> "system_exit", stack |-> None, names |-> {code}]
FailedStacks(failed) == [type |-> "failed_stacks", stack |-> None, names |-> Range(failed)]

Running == [kind |-> "running", err |-> NoError]
Success == [kind |-> "success", err |-> NoError]
Raised(e) == [kind |-> "error", err |-> e]

\* name.endswith(f"-{env}"): the last part is env and a hyphen precedes it
EndsWithEnvironment(name, env) == Len(name) >= 2 /\ name[Len(name)] = env

\* strip_environment_suffix: the loop over ENVIRONMENT_PRIORITY from index k
\* on; the first environment the name ends with is cut off, once
RECURSIVE StripFrom(_, _)
StripFrom(name, k) ==
    IF k > Len(ENVIRONMENT_PRIORITY) THEN name
    ELSE IF EndsWithEnvironment(name, ENVIRONMENT_PRIORITY[k])
         THEN SubSeq(name, 1, Len(name) - 1)
         ELSE StripFrom(name, k + 1)

StripEnvironmentSuffix(name) == StripFrom(name, 1)

\* mutant: the names are compared as they are
CompareStackNames_Exact(sn, f) == sn = f

\* compare_stack_names
CompareStackNames(sn, f) == StripEnvironmentSuffix(sn) = StripEnvironmentSuffix(f)

\* calc_stack_name, and the stack_name of the message of create_message
CalcStackName(name, environment) == Append(name, environment)

\* the full name of stack s of the configuration
FullName(s) == CalcStackName(BaseName[s], Environment)

\* next((sn for sn in all_stack_names if compare_stack_names(sn, f)), None);
\* the stacks are kept by their key, the comparison is on their full names
FindStackName(all_stack_names, f) ==
    LET hits == SelectSeq(all_stack_names,
                          LAMBDA sn : CompareStackNames(FullName(sn), f))
    IN  IF hits = <<>> THEN None ELSE Head(hits)

\* mutant: the disabled stacks are not skipped
ValidateStackNameFilter_WithDisabled(cfg, f) ==
    \/ f = NoFilter
    \/ \E s \in StackNames : CompareStackNames(FullName(s), f)

\* validate_stack_name_filter: TRUE when it returns, FALSE when it exits
ValidateStackNameFilter(cfg, f) ==
    \/ f = NoFilter
    \/ \E s \in StackNames \ cfg.disabled : CompareStackNames(FullName(s), f)

\* the stacks do_dump processes, in the order of the generations
DumpedStacks(generations, f) ==
    SelectSeq(Flatten(generations),
              LAMBDA s : f = NoFilter \/ CompareStackNames(FullName(s), f))

\* mutant: lists every dependency instead of the missing ones
MissingDependencies_All(g, succ, s) == Descendants(g, s)

\* descendants of a candidate that are not in successful_stacks
MissingDependencies(g, succ, s) == Descendants(g, s) \ succ

\* mutant: the filter condition of the check is inverted
BlocksDeployment_FilterInverted(g, succ, filter, s) ==
    MissingDependencies(g, succ, s) # {} /\ filter # None

\* the condition under which the candidate loop raises for candidate s
BlocksDeployment(g, succ, filter, s) ==
    MissingDependencies(g, succ, s) # {} /\ filter = None

\* mutant: every stack of the generation is submitted
Submitted_IgnoresFilter(eligible, filter) == eligible

\* the comprehension that builds future_to_stack
Submitted(eligible, filter) ==
    SelectSeq(eligible, LAMBDA s : filter = None \/ s = filter)

\* mutant: as_completed yields only the futures whose task has returned
Completed_OnlyReturned(t) == t = "returned"

\* as_completed yields a future once its task has returned or raised
Completed(t) == t \in {"returned", "raised"}

\* mutant: as_completed yields a completed future again
Yielded_Again(tk, s) == tk

\* as_completed yields every future once: the future of s is handled
Yielded(tk, s) == [tk EXCEPT ![s] = "collected"]

\* mutant: the batch is left without waiting for its futures
GenerationDone_NoWait(tk) == TRUE

\* the for loop over as_completed and the with block are left when every
\* submitted future has been yielded and handled
GenerationDone(tk) == \A s \in StackNames : tk[s] \in {"idle", "collected"}

\* mutant: only an item with status error counts as a failure
Succeeded_UnlessErrorItem(t, payload) == payload # "error_item"

\* classification of a completed future: TRUE for successful_stacks
Succeeded(t, payload) == t = "returned" /\ payload = "ok_list"

\* mutant: the failure list is not looked at after the loop
FinalResult_AlwaysSuccess(failed) == Success

\* the end of deploy, after the last generation
FinalResult(failed) ==
    IF failed # <<>> THEN Raised(FailedStacks(failed)) ELSE Success

(***************************************************************************)
(* deploy: actions                                                         *)
(***************************************************************************)
\* the dependency entries of a configuration, listed stack by stack in the
\* order of config["stacks"]
StackIndex(s) == CHOOSE k \in 1..Len(StackOrder) : StackOrder[k] = s
EdgeSeqs ==
    {es \in UNION {[1..k -> StackNames \X DepNames] : k \in 0..MaxEdges} :
        \A k \in 1..(Len(es) - 1) : StackIndex(es[k][1]) <= StackIndex(es[k + 1][1])}
\* at most one stack is disabled, for at most one stack create_message raises
DisabledChoices == {{}} \cup {{s} : s \in StackNames}
CreateFailChoices == {{}} \cup {{s} : s \in StackNames}

\* the stack_name argument: the base name or the full name of one of two
\* stacks of the configuration (a plain name, a name that ends in an
\* environment), or a name of no stack
FilterTargets == {"a", "c"}
FilterNames == {BaseName[s] : s \in FilterTargets} \cup {FullName(s) : s \in FilterTargets}
                  \cup {<<UnknownName>>}

\* no function is studied on its own while a command runs
NoCall == [fn |-> None]

\* deploy reads its stack_name argument only after prepare_messages has
\* returned: the filter is varied, and dump is run, for the accepted
\* configurations only
Init ==
    /\ \E es \in EdgeSeqs, dis \in DisabledChoices, cf \in CreateFailChoices :
          config = [deps |-> [s \in StackNames |-> DepsOf(es, s)],
                    disabled |-> dis, createFails |-> cf]
    /\ \E accepted \in {PrepareMessages(config).err = NoError} :
          /\ command \in IF accepted THEN {"deploy", "dump"} ELSE {"deploy"}
          /\ stack_name_arg \in IF accepted THEN {NoFilter} \cup FilterNames
                                 ELSE {NoFilter}
    /\ pc = "start"
    /\ NoUpdater
    /\ message_generations = <<>>
    /\ dependency_graph = EmptyGraph
    /\ stack_name = None
    /\ i = 0
    /\ task = [s \in StackNames |-> "idle"]
    /\ response = [s \in StackNames |-> None]
    /\ successful_stacks = {}
    /\ failed_stacks = <<>>
    /\ dispatch_log = <<>>
    /\ result = Running
    /\ dumped = <<>>
    /\ args = NoCall
    /\ ret = <<>>

\* deploy up to the generation loop: prepare_messages and the filter
Prepare ==
    /\ command = "deploy"
    /\ pc = "start"
    /\ LET r == PrepareMessages(config)
           found == FindStackName(Flatten(r.generations), stack_name_arg)
       IN  IF r.err # NoError
           THEN /\ result' = Raised(r.err)
                /\ pc' = "done"
                /\ UNCHANGED <<message_generations, dependency_graph, stack_name>>
           ELSE IF stack_name_arg # NoFilter /\ found = None
           THEN /\ result' = Raised(StackNotFound(stack_name_arg))
                /\ pc' = "done"
                /\ UNCHANGED <<message_generations, dependency_graph, stack_name>>
           ELSE /\ message_generations' = r.generations
                /\ dependency_graph' = r.graph
                /\ stack_name' = IF stack_name_arg = NoFilter THEN None ELSE found
                /\ pc' = "dispatching"
                /\ UNCHANGED result
    /\ UNCHANGED <<command, dumped, callVars, updaterVars>>
    /\ UNCHANGED <<config, stack_name_arg, i, task, response, successful_stacks,
                   failed_stacks, dispatch_log>>

\* one iteration head: the candidate loop, then the submits.  The pool of
\* ThreadPoolExecutor() has at least five threads, so every submitted task
\* of a generation of at most four stacks starts at once.
StartGeneration ==
    /\ pc = "dispatching"
    /\ i < Len(message_generations)
    /\ LET generation == message_generations[i + 1]
           blocked == SelectSeq(generation, LAMBDA s :
                         BlocksDeployment(dependency_graph, successful_stacks, stack_name, s))
           submitted == Submitted(generation, stack_name)
       IN  IF blocked # <<>>
           THEN /\ result' = Raised(DependencyNotDeployed(Head(blocked),
                        MissingDependencies(dependency_graph, successful_stacks, Head(blocked))))
                /\ pc' = "done"
                /\ UNCHANGED <<task, dispatch_log>>
           ELSE /\ task' = [s \in StackNames |->
                               IF s \in Range(submitted) THEN "invoking" ELSE task[s]]
                /\ dispatch_log' = dispatch_log \o
                       [k \in 1..Len(submitted) |->
                           <<submitted[k], i, FullName(submitted[k])>>]
                /\ pc' = "awaiting"
                /\ UNCHANGED result
    /\ UNCHANGED <<command, dumped, callVars, updaterVars>>
    /\ UNCHANGED <<config, stack_name_arg, message_generations, dependency_graph,
                   stack_name, i, response, successful_stacks, failed_stacks>>

\* deploy_stack: invoke_lambda_with_backoff returns a response
InvokeReturns(s, p) ==
    /\ task[s] = "invoking"
    /\ task' = [task EXCEPT ![s] = "polling"]
    /\ response' = [response EXCEPT ![s] = p]
    /\ UNCHANGED <<command, dumped, callVars, updaterVars>>
    /\ UNCHANGED <<config, stack_name_arg, pc, message_generations, dependency_graph,
                   stack_name, i, successful_stacks, failed_stacks, dispatch_log, result>>

\* deploy_stack: invoke_lambda_with_backoff raises; deploy_stack re-raises
InvokeRaises(s) ==
    /\ task[s] = "invoking"
    /\ task' = [task EXCEPT ![s] = "raised"]
    /\ UNCHANGED <<command, dumped, callVars, updaterVars>>
    /\ UNCHANGED <<config, stack_name_arg, pc, message_generations, dependency_graph,
                   stack_name, i, response, successful_stacks, failed_stacks,
                   dispatch_log, result>>

\* deploy_stack: wait_for_stack_stable_state returns a stable state
PollReturns(s) ==
    /\ task[s] = "polling"
    /\ task' = [task EXCEPT ![s] = "returned"]
    /\ UNCHANGED <<command, dumped, callVars, updaterVars>>
    /\ UNCHANGED <<config, stack_name_arg, pc, message_generations, dependency_graph,
                   stack_name, i, response, successful_stacks, failed_stacks,
                   dispatch_log, result>>

\* deploy_stack: wait_for_stack_stable_state raises (error state, query
\* error, retries exhausted); deploy_stack re-raises and retval is lost
PollRaises(s) ==
    /\ task[s] = "polling"
    /\ task' = [task EXCEPT ![s] = "raised"]
    /\ response' = [response EXCEPT ![s] = None]
    /\ UNCHANGED <<command, dumped, callVars, updaterVars>>
    /\ UNCHANGED <<config, stack_name_arg, pc, message_generations, dependency_graph,
                   stack_name, i, successful_stacks, failed_stacks,
                   dispatch_log, result>>

\* the body of the as_completed loop for the future of stack s
Collect(s) ==
    /\ pc = "awaiting"
    /\ Completed(task[s])
    /\ task' = Yielded(task, s)
    /\ IF Succeeded(task[s], response[s])
       THEN /\ successful_stacks' = successful_stacks \cup {s}
            /\ UNCHANGED failed_stacks
       ELSE /\ failed_stacks' = Append(failed_stacks, s)
            /\ UNCHANGED successful_stacks
    /\ UNCHANGED <<command, dumped, callVars, updaterVars>>
    /\ UNCHANGED <<config, stack_name_arg, pc, message_generations, dependency_graph,
                   stack_name, i, response, dispatch_log, result>>

\* the with block is left; the for loop goes to the next generation
EndGeneration ==
    /\ pc = "awaiting"
    /\ GenerationDone(task)
    /\ i' = i + 1
    /\ pc' = "dispatching"
    /\ UNCHANGED <<command, dumped, callVars, updaterVars>>
    /\ UNCHANGED <<config, stack_name_arg, message_generations, dependency_graph,
                   stack_name, task, response, successful_stacks, failed_stacks,
                   dispatch_log, result>>

\* the command dump: do_dump as a whole
DoDump ==
    /\ command = "dump"
    /\ pc = "start"
    /\ pc' = "done"
    /\ LET r == PrepareMessages(config)
       IN  IF ~ValidateStackNameFilter(config, stack_name_arg)
           THEN /\ result' = Raised(SystemExit(1))
                /\ UNCHANGED dumped
           ELSE IF r.err # NoError
           THEN /\ result' = Raised(r.err)
                /\ UNCHANGED dumped
           ELSE /\ result' = Success
                /\ dumped' = [k \in DOMAIN DumpedStacks(r.generations, stack_name_arg) |->
                                 FullName(DumpedStacks(r.generations, stack_name_arg)[k])]
    /\ UNCHANGED <<config, stack_name_arg, message_generations, dependency_graph,
                   stack_name, i, task, response, successful_stacks, failed_stacks,
                   dispatch_log, command, callVars, updaterVars>>

\* after the last generation
Finish ==
    /\ pc = "dispatching"
    /\ i = Len(message_generations)
    /\ result' = FinalResult(failed_stacks)
    /\ pc' = "done"
    /\ UNCHANGED <<command, dumped, callVars, updaterVars>>
    /\ UNCHANGED <<config, stack_name_arg, message_generations, dependency_graph,
                   stack_name, i, task, response, successful_stacks, failed_stacks,
                   dispatch_log>>

Next ==
    \/ Prepare
    \/ StartGeneration
    \/ \E s \in StackNames, p \in Payloads : InvokeReturns(s, p)
    \/ \E s \in StackNames : InvokeRaises(s)
    \/ \E s \in StackNames : PollReturns(s)
    \/ \E s \in StackNames : PollRaises(s)
    \/ \E s \in StackNames : Collect(s)
    \/ EndGeneration
    \/ Finish
    \/ DoDump

Spec == Init /\ [][Next]_vars

\* The threads of a deploy run: the main thread, which calls prepare_messages
\* and then runs the loop over the generations, and for every stack the pool
\* thread that runs its deploy_stack
MainLoop ==
    \/ StartGeneration
    \/ \E s \in StackNames : Collect(s)
    \/ EndGeneration
    \/ Finish
DeployStack(s) ==
    \/ \E p \in Payloads : InvokeReturns(s, p)
    \/ InvokeRaises(s)
    \/ PollReturns(s)
    \/ PollRaises(s)
NextDeploy == Prepare \/ MainLoop \/ \E s \in StackNames : DeployStack(s)
\* The main thread goes on whenever it can, and so does every deploy_stack:
\* each call of invoke_lambda_with_backoff and of wait_for_stack_stable_state
\* returns or raises, their loops being bounded.  The first conjunct is
\* WF_vars(Prepare), Prepare being enabled exactly where pc = "start".
Fairness ==
    /\ []<>(pc # "start") \/ []<><<Prepare>>_vars
    /\ WF_vars(MainLoop)
    /\ \A s \in StackNames : WF_vars(DeployStack(s))
\* deploy for the configurations that prepare_messages refuses, for the
\* widest ones (one generation) and for the deepest ones
InitDeploy ==
    /\ Init
    /\ command = "deploy"
    /\ Len(PrepareMessages(config).generations) \in {0, 1, MaxEdges + 1}
FairSpec == InitDeploy /\ [][NextDeploy]_vars /\ Fairness

\* prepare_messages on its own: deploy up to the return of prepare_messages,
\* without a stack filter.  The generation list is a function of the
\* configuration alone and no later step of deploy changes it.
InitPrepare == Init /\ command = "deploy" /\ stack_name_arg = NoFilter
NextPrepare == Prepare
SpecPrepare == InitPrepare /\ [][NextPrepare]_vars

TypeOK ==
    /\ pc \in {"start", "dispatching", "awaiting", "done"}
    /\ task \in [StackNames -> {"idle", "invoking", "polling", "returned", "raised", "collected"}]
    /\ successful_stacks \subseteq StackNames
    /\ result.kind \in {"running", "success", "error"}

(***************************************************************************)
(* Functions studied on their own: the arguments are drawn in the initial  *)
(* state, every call appends what it returned to ret; no command runs.     *)
(***************************************************************************)
NoCommand ==
    /\ command = None
    /\ config = [deps |-> [s \in StackNames |-> <<>>], disabled |-> {},
                 createFails |-> {}]
    /\ stack_name_arg = NoFilter
    /\ pc = "done"
    /\ message_generations = <<>>
    /\ dependency_graph = EmptyGraph
    /\ stack_name = None
    /\ i = 0
    /\ task = [s \in StackNames |-> "idle"]
    /\ response = [s \in StackNames |-> None]
    /\ successful_stacks = {}
    /\ failed_stacks = <<>>
    /\ dispatch_log = <<>>
    /\ result = Running
    /\ dumped = <<>>

(***************************************************************************)
(* compare_stack_names                                                     *)
(***************************************************************************)
\* the parts names are made of, and the largest number of parts of a name
NameParts == {"a", "b", "staging", "development"}
MaxParts == 3
Names == UNION {[1..k -> NameParts] : k \in 1..MaxParts}

InitNames ==
    /\ NoCommand
    /\ NoUpdater
    /\ args \in [fn : {"compare_stack_names"}, a : Names, b : Names]
    /\ ret = <<>>

\* compare_stack_names(a, b), then compare_stack_names(b, a)
CallCompareStackNames ==
    /\ args.fn = "compare_stack_names"
    /\ Len(ret) < 2
    /\ ret' = Append(ret, IF ret = <<>> THEN CompareStackNames(args.a, args.b)
                                        ELSE CompareStackNames(args.b, args.a))
    /\ UNCHANGED <<args, commandVars, updaterVars>>

NextNames == CallCompareStackNames

SpecNames == InitNames /\ [][NextNames]_vars

(***************************************************************************)
(* resolve_version_with_hash_support                                       *)
(***************************************************************************)
\* A repository id is the sequence of the parts that its "#" separate:
\* <<"r", "c">> is "r#c".  The ids asked for and the keys of the table
RepoIds == {<<"r">>, <<"c">>, <<"r", "c">>, <<"q", "c">>, <<"r", "q", "c">>}
\* A stored identifier is a sequence of characters; the identifiers differ
\* in their first character, one is shorter than a short version
ShortVersionLength == 7
HashDigits == <<"1", "2", "3", "4", "5", "6", "7", "8", "9">>
StoredIdentifiers == {<<"n">> \o HashDigits, <<"o">> \o HashDigits,
                      <<"s">> \o SubSeq(HashDigits, 1, 4)}
VersionTables == UNION {[keys -> StoredIdentifiers] : keys \in SUBSET RepoIds}

Found(v) == [found |-> TRUE, value |-> v]
NotFound == [found |-> FALSE, value |-> <<>>]

\* full_sha[:7]
ShortVersion(full_sha) ==
    SubSeq(full_sha, 1, IF Len(full_sha) < ShortVersionLength
                        THEN Len(full_sha) ELSE ShortVersionLength)

\* repo.rsplit("#", 1): the id up to its last "#", and what follows it
RSplit(repo) == <<SubSeq(repo, 1, Len(repo) - 1), <<repo[Len(repo)]>>>>

\* mutant: the legacy entry is looked at before the exact one
ResolveVersionWithHashSupport_LegacyFirst(repo, repo_versions) ==
    IF Len(repo) > 1
    THEN LET lambda_name == RSplit(repo)[2]
         IN  IF lambda_name \in DOMAIN repo_versions
             THEN Found(repo_versions[lambda_name])
             ELSE IF repo \in DOMAIN repo_versions
             THEN Found(repo_versions[repo])
             ELSE NotFound
    ELSE IF repo \in DOMAIN repo_versions
         THEN Found(ShortVersion(repo_versions[repo]))
         ELSE NotFound

\* resolve_version_with_hash_support
ResolveVersionWithHashSupport(repo, repo_versions) ==
    IF Len(repo) > 1
    THEN IF repo \in DOMAIN repo_versions
         THEN Found(repo_versions[repo])
         ELSE LET lambda_name == RSplit(repo)[2]
              IN  IF lambda_name \in DOMAIN repo_versions
                  THEN Found(repo_versions[lambda_name])
                  ELSE NotFound
    ELSE IF repo \in DOMAIN repo_versions
         THEN Found(ShortVersion(repo_versions[repo]))
         ELSE NotFound

InitVersion ==
    /\ NoCommand
    /\ NoUpdater
    /\ args \in [fn : {"resolve_version_with_hash_support"}, repo : RepoIds,
                 repo_versions : VersionTables]
    /\ ret = <<>>

CallResolveVersion ==
    /\ args.fn = "resolve_version_with_hash_support"
    /\ ret = <<>>
    /\ ret' = <<ResolveVersionWithHashSupport(args.repo, args.repo_versions)>>
    /\ UNCHANGED <<args, commandVars, updaterVars>>

NextVersion == CallResolveVersion

SpecVersion == InitVersion /\ [][NextVersion]_vars

(***************************************************************************)
(* create_message                                                          *)
(***************************************************************************)
\* Values of parameters and globals.  A string is the sequence of its
\* pieces; an integer keeps its digits; a directive keeps its argument:
\* the key of a "$ref", the pattern of a "$sub", the repo id of a "$version"
Str(v) == [type |-> "str", val |-> v]
IntValue == [type |-> "int", val |-> <<"4", "2">>]
Ref(key) == [type |-> "ref", val |-> <<key>>]
Sub(pattern) == [type |-> "sub", val |-> pattern]
Version(repo) == [type |-> "version", val |-> repo]
OtherDict == [type |-> "dict", val |-> <<>>]

\* isinstance(value, dict)
IsDict(v) == v.type \in {"ref", "sub", "version", "dict"}

\* str(value): a string stays, an integer gives its digits, a dict its repr
StrOf(v) ==
    IF v.type \in {"str", "int"} THEN Str(v.val)
    ELSE Str(<<"{", v.type>> \o v.val \o <<"}">>)

\* The pieces of a pattern: text, or a placeholder "${G}" written "$G"
Placeholders == {"$G", "$N", "$Z", "$Environment", "$__poemai_timestamp__"}
IdentifierOf(piece) ==
    CASE piece = "$G" -> "G"
      [] piece = "$N" -> "N"
      [] piece = "$Z" -> "Z"
      [] piece = "$Environment" -> "Environment"
      [] piece = "$__poemai_timestamp__" -> "__poemai_timestamp__"

\* Template(pattern).get_identifiers(), as a set
GetIdentifiers(pattern) ==
    {IdentifierOf(pattern[k]) : k \in {l \in 1..Len(pattern) : pattern[l] \in Placeholders}}

\* Template(pattern).safe_substitute(mapping): a placeholder whose identifier
\* is a key of the mapping gives str() of its value, any other piece stays
RECURSIVE SafeSubstitute(_, _)
SafeSubstitute(pattern, mapping) ==
    IF pattern = <<>> THEN <<>>
    ELSE LET piece == Head(pattern)
             here  == IF piece \in Placeholders /\ IdentifierOf(piece) \in DOMAIN mapping
                      THEN StrOf(mapping[IdentifierOf(piece)]).val
                      ELSE <<piece>>
         IN  here \o SafeSubstitute(Tail(pattern), mapping)

\* what create_message gives back: a message, None, or an exception
Message(name, parameters, hash) ==
    [kind |-> "message", error |-> "none", names |-> {}, stack_name |-> name,
     parameters |-> parameters, template_content_hash |-> hash]
NoMessage ==
    [kind |-> "none", error |-> "none", names |-> {}, stack_name |-> <<>>,
     parameters |-> {}, template_content_hash |-> <<>>]
MessageError(type, names) ==
    [kind |-> "error", error |-> type, names |-> names, stack_name |-> <<>>,
     parameters |-> {}, template_content_hash |-> <<>>]

\* a dict of parameters is the set of its items <<key, value>>
Keys(items) == {it[1] : it \in items}
SetItem(items, key, value) == {it \in items : it[1] # key} \cup {<<key, value>>}

\* calc_template_file_name, and Path(...).absolute() of it
CalcTemplateFileName(name) == <<"calc">> \o name
Absolute(file_name) == <<"/cwd">> \o file_name
IsAbsolute(file_name) == file_name # <<>> /\ Head(file_name) = "/cwd"

\* find_template_file: a relative name is looked for in the directories of
\* the environments, an absolute one is the file itself
TemplateFound(fs, file_name) ==
    IF IsAbsolute(file_name) THEN fs.in_cwd ELSE fs.template.kind # "missing"

\* sha256 of the template body
Sha256(body) == <<"sha256", body>>

\* the loop over parameters.items(), from item k on
RECURSIVE ResolveParameters(_, _, _, _, _, _)
ResolveParameters(parameters, k, globals, repo_versions, acc, refs) ==
    IF k > Len(parameters) THEN [error |-> "none", names |-> {}, acc |-> acc, refs |-> refs]
    ELSE LET key   == parameters[k][1]
             value == parameters[k][2]
             fail(type, n) == [error |-> type, names |-> n, acc |-> acc, refs |-> refs]
             go(v, r) == ResolveParameters(parameters, k + 1, globals, repo_versions,
                                           SetItem(acc, key, v), refs \cup r)
         IN  IF ~IsDict(value) THEN go(StrOf(value), {})
             ELSE IF value.type = "ref"
             THEN IF value.val[1] \in DOMAIN globals
                  THEN go(StrOf(globals[value.val[1]]), {value.val[1]})
                  ELSE fail("ref_not_found", {value.val[1]})
             ELSE IF value.type = "sub"
             THEN IF GetIdentifiers(value.val) = {}
                  THEN fail("sub_no_identifiers", {})
                  ELSE IF ~(GetIdentifiers(value.val) \subseteq DOMAIN globals)
                  THEN fail("sub_identifier_not_found",
                            GetIdentifiers(value.val) \ DOMAIN globals)
                  ELSE go(Str(SafeSubstitute(value.val, globals)), GetIdentifiers(value.val))
             ELSE IF value.type = "version"
             THEN IF value.val \in DOMAIN repo_versions
                  THEN go(Str(ShortVersion(repo_versions[value.val])), {})
                  ELSE fail("version_not_found", {})
             ELSE fail("unsupported_parameter", {})

\* mutant: a parameter the template does not declare is dropped
CheckParameters_DropUnknown(name, declared, items, globals, hash) ==
    LET filled == items \cup {<<m, globals[m]>> : m \in (declared \ Keys(items)) \cap DOMAIN globals}
        kept == {it \in filled : it[1] \in declared}
    IN  IF declared \ Keys(kept) # {}
        THEN MessageError("missing_parameters", declared \ Keys(kept))
        ELSE Message(name, kept, hash)

\* the backfill from the globals, the three checks and the message
CheckParameters(name, declared, items, globals, hash) ==
    LET filled == items \cup {<<m, globals[m]>> : m \in (declared \ Keys(items)) \cap DOMAIN globals}
        defined_parameters == Keys(filled)
        missing_parameters == declared \ defined_parameters
        unknown_parameters == defined_parameters \ declared
        not_strings == {it[1] : it \in {f \in filled : f[2].type # "str"}}
    IN  IF missing_parameters # {}
        THEN MessageError("missing_parameters", missing_parameters)
        ELSE IF unknown_parameters # {}
        THEN MessageError("superfluous_parameters", unknown_parameters)
        ELSE IF not_strings # {}
        THEN MessageError("not_a_string", not_strings)
        ELSE Message(name, filled, hash)

\* create_message.  stack is the dict it is given and changes: out is what
\* it returns or raises, stack the dict afterwards, refs what it adds to
\* referenced_globals
CreateMessage(stack, globals, environment, repo_versions, fs) ==
    LET given == stack.template_file
        template_file_name ==
            IF given = <<>> THEN CalcTemplateFileName(stack.stack_name) ELSE given
        stack1 == IF given = <<>>
                  THEN [stack EXCEPT !.template_file = Absolute(template_file_name)]
                  ELSE stack
        raw_stack_name == stack.stack_name
        stack2 == [stack1 EXCEPT !.stack_name = <<>>]
        r == ResolveParameters(stack.parameters, 1, globals, repo_versions, {}, {})
    IN  IF given = <<>> /\ stack.stack_name = <<>>
        THEN [out |-> MessageError("key_error", {}), stack |-> stack, refs |-> {}]
        ELSE IF ~TemplateFound(fs, template_file_name)
        THEN [out |-> MessageError("file_not_found", {}), stack |-> stack1, refs |-> {}]
        ELSE IF fs.template.kind = "unparsable"
        THEN [out |-> MessageError("system_exit", {}), stack |-> stack2, refs |-> {}]
        ELSE IF fs.template.kind = "empty"
        THEN [out |-> MessageError("template_empty", {}), stack |-> stack2, refs |-> {}]
        ELSE IF fs.template.kind = "not_dict"
        THEN [out |-> MessageError("template_not_dict", {}), stack |-> stack2, refs |-> {}]
        ELSE IF raw_stack_name = <<>> \/ stack.disabled
        THEN [out |-> NoMessage, stack |-> stack2, refs |-> {}]
        ELSE IF r.error # "none"
        THEN [out |-> MessageError(r.error, r.names), stack |-> stack2, refs |-> r.refs]
        ELSE LET out == CheckParameters(CalcStackName(raw_stack_name, environment),
                                        fs.template.declared, r.acc, globals,
                                        Sha256(fs.template))
                 backfilled == (fs.template.declared \ Keys(r.acc)) \cap DOMAIN globals
             IN  [out |-> out, stack |-> stack2, refs |-> r.refs \cup backfilled]

\* how often create_message is called on the same stack dict
MaxCalls == 2

\* the values a parameter of the stack can have
ParameterValues ==
    {Str(<<"v">>), IntValue, Ref("G"), Ref("Z"), Sub(<<"x", "$G">>), Sub(<<"x">>),
     Sub(<<"$G", "$Z">>), Version(<<"r">>), Version(<<"m">>), OtherDict}
\* the parameters of the stack: P and G, each given or not, in this order
ParameterDicts ==
    {<<>>} \cup {<<<<"P", v>>>> : v \in ParameterValues}
           \cup {<<<<"G", v>>>> : v \in ParameterValues}
           \cup {<<<<"P", v>>, <<"G", w>>>> : v \in ParameterValues, w \in {Str(<<"v">>), Ref("Z")}}
\* the template file: missing, not YAML, empty, not a mapping, or a mapping
\* that declares some of the parameters P, G and N
TemplateFiles ==
    {[kind |-> k, declared |-> {}] : k \in {"missing", "unparsable", "empty", "not_dict"}}
        \cup {[kind |-> "dict", declared |-> d] : d \in SUBSET {"P", "G", "N"}}
\* the globals: none, a string G, a string G and an integer N
GlobalsChoices ==
    {<<>>, [k \in {"G"} |-> Str(<<"g">>)],
     [k \in {"G", "N"} |-> IF k = "G" THEN Str(<<"g">>) ELSE IntValue]}
\* the version table of the run
RepoVersions == [k \in {<<"r">>} |-> <<"n">> \o HashDigits]
StackDefinitions ==
    [stack_name : {<<>>, <<"s">>}, template_file : {<<>>, <<"t.yaml">>},
     disabled : BOOLEAN, parameters : ParameterDicts]

InitMessage ==
    /\ NoCommand
    /\ NoUpdater
    /\ \E st \in StackDefinitions, t \in TemplateFiles, g \in GlobalsChoices, c \in BOOLEAN :
          /\ (c => st.template_file = <<>> /\ t.kind # "missing")
          /\ args = [fn |-> "create_message", definition |-> st, stack |-> st,
                     globals |-> g, environment |-> Environment,
                     repo_versions |-> RepoVersions,
                     fs |-> [template |-> t, in_cwd |-> c]]
    /\ ret = <<>>

\* one call of create_message on the stack dict as the calls before left it
CallCreateMessage ==
    /\ args.fn = "create_message"
    /\ Len(ret) < MaxCalls
    /\ LET r == CreateMessage(args.stack, args.globals, args.environment,
                              args.repo_versions, args.fs)
       IN  /\ ret' = Append(ret, r.out)
           /\ args' = [args EXCEPT !.stack = r.stack]
    /\ UNCHANGED <<commandVars, updaterVars>>

NextMessage == CallCreateMessage

SpecMessage == InitMessage /\ [][NextMessage]_vars

(***************************************************************************)
(* The globals: the override file of main and the passes of                *)
(* prepare_messages, followed by create_message for one stack              *)
(***************************************************************************)
POEMAI_TIMESTAMP_KEY == "__poemai_timestamp__"

\* A dict that is iterated in the order of its keys' insertion is the
\* sequence of its items <<key, value>>
DictKeys(d) == {d[k][1] : k \in DOMAIN d}
DictGet(d, key) == d[CHOOSE k \in DOMAIN d : d[k][1] = key][2]
\* d[key] = value: an existing key keeps its place, a new one is appended
DictSet(d, key, value) ==
    IF key \in DictKeys(d)
    THEN [k \in DOMAIN d |-> IF d[k][1] = key THEN <<key, value>> ELSE d[k]]
    ELSE Append(d, <<key, value>>)
AsMapping(d) == [key \in DictKeys(d) |-> DictGet(d, key)]

\* mutant: the override file only adds the keys the configuration lacks
RECURSIVE OverrideGlobals_OnlyNewKeys(_, _)
OverrideGlobals_OnlyNewKeys(d, override_globals) ==
    IF override_globals = <<>> THEN d
    ELSE OverrideGlobals_OnlyNewKeys(
             IF Head(override_globals)[1] \in DictKeys(d) THEN d
             ELSE DictSet(d, Head(override_globals)[1], Head(override_globals)[2]),
             Tail(override_globals))

\* main: config["globals"][key] = value for every item of the override file
RECURSIVE OverrideGlobals(_, _)
OverrideGlobals(d, override_globals) ==
    IF override_globals = <<>> THEN d
    ELSE OverrideGlobals(DictSet(d, Head(override_globals)[1], Head(override_globals)[2]),
                         Tail(override_globals))

\* the loop that resolves the "$version" globals, from item k on
RECURSIVE VersionPass(_, _, _)
VersionPass(d, k, repo_versions) ==
    IF k > Len(d) THEN [error |-> "none", globals |-> d]
    ELSE IF d[k][2].type = "version"
    THEN LET r == ResolveVersionWithHashSupport(d[k][2].val, repo_versions)
         IN  IF r.found
             THEN VersionPass(DictSet(d, d[k][1], Str(r.value)), k + 1, repo_versions)
             ELSE [error |-> "version_not_found", globals |-> d]
    ELSE VersionPass(d, k + 1, repo_versions)

\* the loop that resolves the "$sub" globals, from item k on
RECURSIVE SubPass(_, _)
SubPass(d, k) ==
    IF k > Len(d) THEN [error |-> "none", globals |-> d]
    ELSE IF d[k][2].type = "sub"
    THEN IF GetIdentifiers(d[k][2].val) \subseteq DictKeys(d)
         THEN SubPass(DictSet(d, d[k][1], Str(SafeSubstitute(d[k][2].val, AsMapping(d)))),
                      k + 1)
         ELSE [error |-> "sub_identifier_not_found", globals |-> d]
    ELSE SubPass(d, k + 1)

\* the loop that resolves the "$ref" globals, from item k on
RECURSIVE RefPass(_, _)
RefPass(d, k) ==
    IF k > Len(d) THEN [error |-> "none", globals |-> d]
    ELSE IF d[k][2].type = "ref"
    THEN IF d[k][2].val[1] \in DictKeys(d)
         THEN RefPass(DictSet(d, d[k][1], DictGet(d, d[k][2].val[1])), k + 1)
         ELSE [error |-> "ref_not_found", globals |-> d]
    ELSE RefPass(d, k + 1)

\* mutant: the passes run in the order ref, sub, version
ResolveGlobals_VersionLast(d, has_environment, environment, repo_versions) ==
    LET g1 == DictSet(d, POEMAI_TIMESTAMP_KEY, Str(<<"now">>))
        g2 == IF has_environment THEN DictSet(g1, "Environment", Str(<<environment>>))
              ELSE g1
        rf == RefPass(g2, 1)
        sb == SubPass(rf.globals, 1)
        v  == VersionPass(sb.globals, 1, repo_versions)
    IN  IF rf.error # "none" THEN rf
        ELSE IF sb.error # "none" THEN sb
        ELSE IF v.error # "none" THEN v
        ELSE IF ~has_environment
        THEN [error |-> "environment_not_found", globals |-> v.globals]
        ELSE v

\* prepare_messages up to the loop over the stacks: the timestamp and the
\* environment are put into the globals, then the three passes run, then
\* a configuration without environment is refused
ResolveGlobals(d, has_environment, environment, repo_versions) ==
    LET g1 == DictSet(d, POEMAI_TIMESTAMP_KEY, Str(<<"now">>))
        g2 == IF has_environment THEN DictSet(g1, "Environment", Str(<<environment>>))
              ELSE g1
        v  == VersionPass(g2, 1, repo_versions)
        sb == SubPass(v.globals, 1)
        rf == RefPass(sb.globals, 1)
    IN  IF v.error # "none" THEN v
        ELSE IF sb.error # "none" THEN sb
        ELSE IF rf.error # "none" THEN rf
        ELSE IF ~has_environment
        THEN [error |-> "environment_not_found", globals |-> rf.globals]
        ELSE rf

\* main and prepare_messages for a configuration of one stack; unused is
\* what the warnings after the loop over the stacks name
PrepareOneStack(a) ==
    LET d == OverrideGlobals(a.config_globals, a.override_globals)
        g == ResolveGlobals(d, a.has_environment, Environment, a.repo_versions)
        m == CreateMessage(a.stack, AsMapping(g.globals), Environment,
                           a.repo_versions, a.fs)
        referenced_globals ==
            {POEMAI_TIMESTAMP_KEY}
                \cup (IF a.has_environment THEN {"Environment"} ELSE {})
                \cup m.refs
    IN  IF g.error # "none"
        THEN [error |-> g.error, globals |-> g.globals, out |-> NoMessage,
              unused |-> {}]
        ELSE [error |-> "none", globals |-> g.globals, out |-> m.out,
              unused |-> IF m.out.kind = "error" THEN {}
                         ELSE DictKeys(g.globals) \ referenced_globals]

\* the keys a parameter of the stack is resolved through, and the ways
ConsumedKeys == {"G", "Environment", POEMAI_TIMESTAMP_KEY}
Ways == {"ref", "sub", "backfill"}
PlaceholderOf(key) == CHOOSE p \in Placeholders : IdentifierOf(p) = key

\* the stack whose parameter is resolved through key in the given way, and
\* its template
ConsumingStack(key, way) ==
    [stack_name |-> <<"s">>, template_file |-> <<"t.yaml">>, disabled |-> FALSE,
     parameters |-> IF way = "ref" THEN <<<<"P", Ref(key)>>>>
                    ELSE IF way = "sub" THEN <<<<"P", Sub(<<"x", PlaceholderOf(key)>>)>>>>
                    ELSE <<>>]
ConsumingTemplate(key, way) ==
    [kind |-> "dict", declared |-> IF way = "backfill" THEN {key} ELSE {"P"}]

\* what the configuration declares for G, for N and for Environment
DeclaredForG ==
    {Str(<<"g">>), Version(<<"r">>), Version(<<"m">>), Sub(<<"x", "$N">>), Ref("N"), Ref("Z"),
     Ref("G"), Sub(<<"x">>)}
DeclaredForN ==
    {Str(<<"n">>), Version(<<"r">>), Sub(<<"$G">>), Ref("G"), Ref("Environment")}
DeclaredForEnvironment == {Str(<<"declared">>)}
\* a dict with some of the keys of the sequence keys, in that order
RECURSIVE DictsOver(_, _)
DictsOver(keys, values) ==
    IF keys = <<>> THEN {<<>>}
    ELSE LET rest == DictsOver(Tail(keys), values)
         IN  rest \cup {<<<<Head(keys), v>>>> \o r : v \in values[Head(keys)], r \in rest}
GlobalValues ==
    [k \in {"G", "N", "Environment", POEMAI_TIMESTAMP_KEY} |->
        IF k = "G" THEN DeclaredForG
        ELSE IF k = "N" THEN DeclaredForN
        ELSE IF k = "Environment" THEN DeclaredForEnvironment
        ELSE {}]
ConfigGlobals ==
    DictsOver(<<"G", "N", "Environment">>, GlobalValues)
        \cup DictsOver(<<"Environment", "N", "G">>, GlobalValues)
\* the override file: a value for some of the keys
OverrideValues == [k \in ConsumedKeys |-> {Str(<<"o", k>>)}]
OverrideFiles == DictsOver(<<"G", "Environment", POEMAI_TIMESTAMP_KEY>>, OverrideValues)

InitGlobals ==
    /\ NoCommand
    /\ NoUpdater
    /\ \E cg \in ConfigGlobals, og \in OverrideFiles, key \in ConsumedKeys, way \in Ways,
          e \in BOOLEAN :
          args = [fn |-> "prepare_messages", config_globals |-> cg,
                  override_globals |-> og, has_environment |-> e,
                  consumed |-> key, way |-> way,
                  stack |-> ConsumingStack(key, way),
                  fs |-> [template |-> ConsumingTemplate(key, way), in_cwd |-> FALSE],
                  repo_versions |-> RepoVersions]
    /\ ret = <<>>

\* main applies the override file and the command calls prepare_messages
CallPrepareMessages ==
    /\ args.fn = "prepare_messages"
    /\ ret = <<>>
    /\ ret' = <<PrepareOneStack(args)>>
    /\ UNCHANGED <<args, commandVars, updaterVars>>

NextGlobals == CallPrepareMessages

SpecGlobals == InitGlobals /\ [][NextGlobals]_vars

(***************************************************************************)
(* update_versions_file.py: a VersionsFileUpdater and its versions file    *)
(***************************************************************************)
\* A text is the sequence of its characters.  A section of the data is
\* missing, a mapping from keys to values, or something that is no dict.
NoItems == [key \in {} |-> Str(<<>>)]
Absent == [kind |-> "absent", items |-> NoItems]
NotADict == [kind |-> "other", items |-> NoItems]
Dict(items) == [kind |-> "dict", items |-> items]
NoValue == [type |-> "none", val |-> <<>>]
\* section.get(key)
Get(section, key) ==
    IF key \in DOMAIN section.items THEN section.items[key] ELSE NoValue
\* mutant: the assignment drops the other keys
Put_Only(section, key, value) == Dict([k \in {key} |-> value])

\* section[key] = value
Put(section, key, value) ==
    Dict([k \in DOMAIN section.items \cup {key} |->
             IF k = key THEN value ELSE section.items[k]])

\* the versions file: the data its YAML text stands for, if the file exists.
\* safe_dump writes a text as a string scalar, which safe_load reads back as
\* the same text; a file written by hand may hold a number for a version.
EmptyData == [versions |-> Absent, hash_based_lambdas |-> Absent]
NoFile == [exists |-> FALSE, content |-> EmptyData]
FileWith(d) == [exists |-> TRUE, content |-> d]

\* _load_existing_file
LoadExistingFile(file) == IF file.exists THEN file.content ELSE EmptyData

\* _save_file
SaveFile(d) == FileWith(d)

\* mutant: the versions section is always started afresh
EnsureStructure_Afresh(d) == [d EXCEPT !.versions = Dict(NoItems)]

\* _ensure_structure
EnsureStructure(d) ==
    IF d.versions.kind # "dict" THEN [d EXCEPT !.versions = Dict(NoItems)] ELSE d

\* text.strip()
RECURSIVE Strip(_)
Strip(text) ==
    IF text = <<>> THEN <<>>
    ELSE IF Head(text) = " " THEN Strip(Tail(text))
    ELSE IF text[Len(text)] = " " THEN Strip(SubSeq(text, 1, Len(text) - 1))
    ELSE text

HexDigits == {"a", "b"}

\* how a call of the updater ends
Returned(value, d, file, saved) ==
    [outcome |-> IF value THEN "true" ELSE "false", data |-> d, file |-> file,
     saved |-> saved]
ValueError(d, file) == [outcome |-> "raised", data |-> d, file |-> file, saved |-> FALSE]

\* mutant: the stored version is compared with the SHA as it was passed
UpdateRegularBuild_ComparesRaw(d, file, upstream_repo, upstream_sha) ==
    IF Strip(upstream_repo) = <<>> THEN ValueError(d, file)
    ELSE LET sha == Strip(upstream_sha)
         IN  IF sha = <<>> \/ Range(sha) \ HexDigits # {} THEN ValueError(d, file)
             ELSE LET d1 == EnsureStructure(d)
                  IN  IF Get(d1.versions, upstream_repo) = Str(upstream_sha)
                      THEN Returned(FALSE, d1, file, FALSE)
                      ELSE LET d2 == [d1 EXCEPT !.versions =
                                         Put(d1.versions, upstream_repo, Str(sha))]
                           IN  Returned(TRUE, d2, SaveFile(d2), TRUE)

\* update_regular_build
UpdateRegularBuild(d, file, upstream_repo, upstream_sha) ==
    IF Strip(upstream_repo) = <<>> THEN ValueError(d, file)
    ELSE LET sha == Strip(upstream_sha)
         IN  IF sha = <<>> \/ Range(sha) \ HexDigits # {} THEN ValueError(d, file)
             ELSE LET d1 == EnsureStructure(d)
                  IN  IF Get(d1.versions, upstream_repo) = Str(sha)
                      THEN Returned(FALSE, d1, file, FALSE)
                      ELSE LET d2 == [d1 EXCEPT !.versions =
                                         Put(d1.versions, upstream_repo, Str(sha))]
                           IN  Returned(TRUE, d2, SaveFile(d2), TRUE)

\* What _download_s3_manifest returns: None, or the data of the manifest,
\* which is empty or a dict with or without a versions section
NoManifest == [kind |-> "none", versions |-> Absent]
EmptyManifest == [kind |-> "empty", versions |-> Absent]
ManifestWith(versions) == [kind |-> "dict", versions |-> versions]

\* f"{upstream_repo}#{lambda_name}"
LambdaRef(upstream_repo, lambda_name) == upstream_repo \o <<"#">> \o lambda_name

\* _extract_lambda_versions: the entries of the versions section of the
\* manifest that are strings, under the reference of their lambda
ExtractLambdaVersions(manifest_data, upstream_repo) ==
    IF manifest_data.kind = "dict" /\ manifest_data.versions.kind = "dict"
    THEN LET section == manifest_data.versions.items
             names == {n \in DOMAIN section : section[n].type = "str"}
         IN  [ref \in {LambdaRef(upstream_repo, n) : n \in names} |->
                 section[CHOOSE n \in names : LambdaRef(upstream_repo, n) = ref]]
    ELSE NoItems

\* the loop of update_hash_based_build over the lambda versions
UpdateLambdaVersions(versions, lambda_versions) ==
    Dict([k \in DOMAIN versions.items \cup DOMAIN lambda_versions |->
             IF k \in DOMAIN lambda_versions THEN lambda_versions[k]
             ELSE versions.items[k]])

\* mutant: the sections are set up before the arguments are looked at
UpdateHashBasedBuild_SetsUpFirst(d, file, upstream_repo, manifest_url, manifest_data) ==
    LET d1 == EnsureStructure(d)
        d2 == IF d1.hash_based_lambdas.kind = "absent"
              THEN [d1 EXCEPT !.hash_based_lambdas = Dict(NoItems)] ELSE d1
    IN  IF Strip(upstream_repo) = <<>> \/ Strip(manifest_url) = <<>>
        THEN ValueError(d2, file)
        ELSE LET manifest_updated ==
                     Get(d2.hash_based_lambdas, upstream_repo) # Str(manifest_url)
                 lambda_versions ==
                     IF manifest_data.kind = "dict"
                     THEN ExtractLambdaVersions(manifest_data, upstream_repo)
                     ELSE NoItems
                 lambda_versions_updated ==
                     \E ref \in DOMAIN lambda_versions :
                         Get(d2.versions, ref) # lambda_versions[ref]
                 d3 == [d2 EXCEPT !.versions = UpdateLambdaVersions(@, lambda_versions)]
                 d4 == IF manifest_updated
                       THEN [d3 EXCEPT !.hash_based_lambdas =
                                Put(@, upstream_repo, Str(manifest_url))]
                       ELSE d3
             IN  IF manifest_updated \/ lambda_versions_updated
                 THEN Returned(TRUE, d4, SaveFile(d4), TRUE)
                 ELSE Returned(FALSE, d4, file, FALSE)

\* update_hash_based_build, manifest_data being what _download_s3_manifest
\* returns for the manifest URL
UpdateHashBasedBuild(d, file, upstream_repo, manifest_url, manifest_data) ==
    IF Strip(upstream_repo) = <<>> \/ Strip(manifest_url) = <<>>
    THEN ValueError(d, file)
    ELSE LET d1 == EnsureStructure(d)
             d2 == IF d1.hash_based_lambdas.kind = "absent"
                   THEN [d1 EXCEPT !.hash_based_lambdas = Dict(NoItems)] ELSE d1
             manifest_updated ==
                 Get(d2.hash_based_lambdas, upstream_repo) # Str(manifest_url)
             lambda_versions ==
                 IF manifest_data.kind = "dict"
                 THEN ExtractLambdaVersions(manifest_data, upstream_repo)
                 ELSE NoItems
             lambda_versions_updated ==
                 \E ref \in DOMAIN lambda_versions :
                     Get(d2.versions, ref) # lambda_versions[ref]
             d3 == [d2 EXCEPT !.versions = UpdateLambdaVersions(@, lambda_versions)]
             d4 == IF manifest_updated
                   THEN [d3 EXCEPT !.hash_based_lambdas =
                            Put(@, upstream_repo, Str(manifest_url))]
                   ELSE d3
         IN  IF manifest_updated \/ lambda_versions_updated
             THEN Returned(TRUE, d4, SaveFile(d4), TRUE)
             ELSE Returned(FALSE, d4, file, FALSE)

\* _parse_s3_url accepts a URL that starts with "s3://" and goes on with a
\* bucket and a key; the second piece of a URL stands for "bucket/key"
IsS3Url(manifest_url) == Len(manifest_url) = 2 /\ manifest_url[1] = "s3://"

\* The arguments of the calls and the contents of the file
UpstreamRepos == {<<"r">>, <<"q">>, <<>>, <<" ">>}
UpstreamShas == {<<"a">>, <<"b">>, <<" ", "a">>, <<"g">>, <<>>, <<" ">>}
ManifestUrls == {<<"s3://", "u">>, <<"s3://", "v">>, <<"w">>, <<>>, <<" ">>}
LambdaNames == {<<"x">>, <<"y">>}
Manifests ==
    {NoManifest, EmptyManifest, ManifestWith(Absent), ManifestWith(NotADict),
     ManifestWith(Dict([n \in {<<"x">>} |-> Str(<<"a">>)])),
     ManifestWith(Dict([n \in {<<"x">>} |-> Str(<<"b">>)])),
     ManifestWith(Dict([n \in LambdaNames |->
                           IF n = <<"x">> THEN Str(<<"a">>) ELSE IntValue]))}
\* what _download_s3_manifest can return for a URL
Downloads(manifest_url) == IF IsS3Url(manifest_url) THEN Manifests ELSE {NoManifest}
VersionsSections ==
    {Absent, NotADict, Dict(NoItems),
     Dict([k \in {<<"r">>} |-> Str(<<"a">>)]),
     Dict([k \in {<<"r">>} |-> IntValue]),
     Dict([k \in {<<"r">>, <<"q">>} |-> IF k = <<"r">> THEN Str(<<"a">>) ELSE Str(<<"b">>)]),
     Dict([k \in {<<"q">>, <<"r", "#", "x">>} |-> Str(<<"a">>)])}
ManifestSections ==
    {Absent,
     Dict([k \in {<<"r">>} |-> Str(<<"s3://", "u">>)]),
     Dict([k \in {<<"r">>, <<"q">>} |-> Str(<<"s3://", "v">>)])}
VersionsFiles ==
    {NoFile} \cup {FileWith([versions |-> v, hash_based_lambdas |-> h]) :
                      v \in VersionsSections, h \in ManifestSections}

\* VersionsFileUpdater(versions_file_path)
NewUpdater == [fn |-> "VersionsFileUpdater"]
InitUpdater ==
    /\ NoCommand
    /\ versions_file \in VersionsFiles
    /\ data = LoadExistingFile(versions_file)
    /\ args = NewUpdater
    /\ ret = <<>>

\* the call, the state it was made in, and whether it repeats the call before
CallOf(fn, upstream_repo, value, manifest_data) ==
    [fn |-> fn, upstream_repo |-> upstream_repo, value |-> value,
     manifest_data |-> manifest_data, data |-> data, versions_file |-> versions_file,
     repeated |-> /\ args.fn = fn
                  /\ args.upstream_repo = upstream_repo
                  /\ args.value = value
                  /\ args.manifest_data = manifest_data]

CallUpdateRegularBuild(upstream_repo, upstream_sha) ==
    /\ args.fn \in {"VersionsFileUpdater", "update_regular_build", "update_hash_based_build"}
    /\ Len(ret) < MaxCalls
    /\ LET r == UpdateRegularBuild(data, versions_file, upstream_repo, upstream_sha)
       IN  /\ data' = r.data
           /\ versions_file' = r.file
           /\ ret' = Append(ret, [outcome |-> r.outcome, saved |-> r.saved])
    /\ args' = CallOf("update_regular_build", upstream_repo, upstream_sha, NoManifest)
    /\ UNCHANGED commandVars

CallUpdateHashBasedBuild(upstream_repo, manifest_url, manifest_data) ==
    /\ args.fn \in {"VersionsFileUpdater", "update_regular_build", "update_hash_based_build"}
    /\ Len(ret) < MaxCalls
    /\ manifest_data \in Downloads(manifest_url)
    /\ LET r == UpdateHashBasedBuild(data, versions_file, upstream_repo, manifest_url,
                                     manifest_data)
       IN  /\ data' = r.data
           /\ versions_file' = r.file
           /\ ret' = Append(ret, [outcome |-> r.outcome, saved |-> r.saved])
    /\ args' = CallOf("update_hash_based_build", upstream_repo, manifest_url, manifest_data)
    /\ UNCHANGED commandVars

NextUpdater ==
    \/ \E upstream_repo \in UpstreamRepos, upstream_sha \in UpstreamShas :
          CallUpdateRegularBuild(upstream_repo, upstream_sha)
    \/ \E upstream_repo \in UpstreamRepos, manifest_url \in ManifestUrls,
          manifest_data \in Manifests :
          CallUpdateHashBasedBuild(upstream_repo, manifest_url, manifest_data)

SpecUpdater == InitUpdater /\ [][NextUpdater]_vars

(***************************************************************************)
(* invoke_lambda_with_backoff.  ret has what lambda_client.invoke did, call *)
(* by call; times are in milliseconds.                                      *)
(***************************************************************************)
MaxAttempts == 8
InitialDelay == 1
TooManyRequestsException == "TooManyRequestsException"
OtherException == "Exception"
\* 1000 * random.uniform(0, 1)
Jitters == {0, 500, 999}
\* initial_delay * (2**attempt) + random.uniform(0, 1)
SleepTime(initial_delay, attempt, jitter) == 1000 * initial_delay * (2 ^ attempt) + jitter

InitBackoff ==
    /\ NoCommand
    /\ NoUpdater
    /\ args = [fn |-> "invoke_lambda_with_backoff", max_attempts |-> MaxAttempts,
               initial_delay |-> InitialDelay, attempt |-> 0, slept |-> <<>>,
               end |-> "running"]
    /\ ret = <<>>

InBackoffLoop ==
    /\ args.fn = "invoke_lambda_with_backoff"
    /\ args.end = "running"
    /\ args.attempt < args.max_attempts

\* invoke returns a response, whose payload is read and returned
ClientResponds(p) ==
    /\ InBackoffLoop
    /\ ret' = Append(ret, p)
    /\ args' = [args EXCEPT !.end = "returned"]
    /\ UNCHANGED <<commandVars, updaterVars>>

\* mutant: the rate-limit error of the last attempt is slept on as well and
\* the loop is left without an exception
ClientRateLimits_SleepsOnLast(jitter) ==
    /\ InBackoffLoop
    /\ ret' = Append(ret, TooManyRequestsException)
    /\ args' = [args EXCEPT
                   !.slept = Append(@, SleepTime(args.initial_delay, args.attempt, jitter)),
                   !.attempt = @ + 1]
    /\ UNCHANGED <<commandVars, updaterVars>>

\* invoke raises TooManyRequestsException
ClientRateLimits(jitter) ==
    /\ InBackoffLoop
    /\ ret' = Append(ret, TooManyRequestsException)
    /\ IF args.attempt < args.max_attempts - 1
       THEN args' = [args EXCEPT
                        !.slept = Append(@, SleepTime(args.initial_delay, args.attempt, jitter)),
                        !.attempt = @ + 1]
       ELSE args' = [args EXCEPT !.end = "raised"]
    /\ UNCHANGED <<commandVars, updaterVars>>

\* invoke, or the reading of the payload, raises another exception
ClientFails ==
    /\ InBackoffLoop
    /\ ret' = Append(ret, OtherException)
    /\ args' = [args EXCEPT !.end = "raised"]
    /\ UNCHANGED <<commandVars, updaterVars>>

NextBackoff ==
    \/ \E p \in Payloads : ClientResponds(p)
    \/ \E jitter \in Jitters : ClientRateLimits(jitter)
    \/ ClientFails

SpecBackoff == InitBackoff /\ [][NextBackoff]_vars

(***************************************************************************)
(* wait_for_stack_stable_state                                             *)
(***************************************************************************)
NumRetries == 30
SuccessStatuses == {"UPDATE_COMPLETE", "CREATE_COMPLETE"}
ErrorStatuses == {"ROLLBACK_COMPLETE", "CREATE_FAILED", "ROLLBACK_FAILED",
                  "UPDATE_ROLLBACK_FAILED", "UPDATE_ROLLBACK_COMPLETE"}
\* some of the other values of StackStatus
OtherStatuses == {"UPDATE_IN_PROGRESS", "UPDATE_ROLLBACK_IN_PROGRESS", "DELETE_FAILED"}

InitPoll ==
    /\ NoCommand
    /\ NoUpdater
    /\ args = [fn |-> "wait_for_stack_stable_state", num_retries |-> NumRetries,
               queries |-> 0, stack_status |-> None, end |-> "running",
               error |-> None]
    /\ ret = <<>>

InPollLoop ==
    /\ args.fn = "wait_for_stack_stable_state"
    /\ args.end = "running"
    /\ args.queries < args.num_retries

\* mutant: a status that is not known is taken for an error
DescribeStacksReports_UnknownIsError(status) ==
    /\ InPollLoop
    /\ IF status \in SuccessStatuses
       THEN /\ args' = [args EXCEPT !.queries = @ + 1, !.stack_status = status,
                                    !.end = "returned"]
            /\ ret' = <<status>>
       ELSE /\ args' = [args EXCEPT !.queries = @ + 1, !.stack_status = status,
                                    !.end = "raised", !.error = "error_state"]
            /\ UNCHANGED ret
    /\ UNCHANGED <<commandVars, updaterVars>>

\* describe_stacks reports a status; after the last query without a stable
\* state the loop is left and the function raises
DescribeStacksReports(status) ==
    /\ InPollLoop
    /\ IF status \in SuccessStatuses
       THEN /\ args' = [args EXCEPT !.queries = @ + 1, !.stack_status = status,
                                    !.end = "returned"]
            /\ ret' = <<status>>
       ELSE IF status \in ErrorStatuses
       THEN /\ args' = [args EXCEPT !.queries = @ + 1, !.stack_status = status,
                                    !.end = "raised", !.error = "error_state"]
            /\ UNCHANGED ret
       ELSE IF args.queries + 1 < args.num_retries
       THEN /\ args' = [args EXCEPT !.queries = @ + 1, !.stack_status = status]
            /\ UNCHANGED ret
       ELSE /\ args' = [args EXCEPT !.queries = @ + 1, !.stack_status = status,
                                    !.end = "raised", !.error = "never_stable"]
            /\ UNCHANGED ret
    /\ UNCHANGED <<commandVars, updaterVars>>

\* describe_stacks raises
DescribeStacksRaises ==
    /\ InPollLoop
    /\ args' = [args EXCEPT !.queries = @ + 1, !.end = "raised",
                            !.error = "query_raised"]
    /\ UNCHANGED <<ret, commandVars, updaterVars>>

NextPoll ==
    \/ \E status \in SuccessStatuses \cup ErrorStatuses \cup OtherStatuses :
          DescribeStacksReports(status)
    \/ DescribeStacksRaises

SpecPoll == InitPoll /\ [][NextPoll]_vars

(***************************************************************************)
(* The pool of one generation: ThreadPoolExecutor() and the comprehension  *)
(* that submits deploy_stack for every eligible stack.  Tasks are numbered  *)
(* in the order of submission.                                              *)
(***************************************************************************)
\* os.cpu_count() of the runner
CpuCounts == {1, 2}
MaxWidth == 6
\* max_workers of ThreadPoolExecutor() when none is passed
DefaultMaxWorkers(cpu_count) == IF cpu_count + 4 < 32 THEN cpu_count + 4 ELSE 32

InitPool ==
    /\ NoCommand
    /\ NoUpdater
    /\ \E cpu_count \in CpuCounts, width \in 1..MaxWidth :
           args = [fn |-> "ThreadPoolExecutor", width |-> width,
                   max_workers |-> DefaultMaxWorkers(cpu_count),
                   submitted |-> 0, work_queue |-> <<>>, num_threads |-> 0,
                   running |-> {}, done |-> {}]
    /\ ret = <<>>

IdleThreads == args.num_threads - Cardinality(args.running)

\* executor.submit: the work item is queued, and a thread is started unless
\* an idle one is there for it or max_workers threads exist
Submit ==
    /\ args.fn = "ThreadPoolExecutor"
    /\ args.submitted < args.width
    /\ args' = [args EXCEPT
           !.submitted = @ + 1,
           !.work_queue = Append(@, args.submitted + 1),
           !.num_threads =
               IF IdleThreads <= Len(args.work_queue) /\ @ < args.max_workers
               THEN @ + 1 ELSE @]
    /\ UNCHANGED <<ret, commandVars, updaterVars>>

\* an idle worker thread takes the first work item and runs deploy_stack
WorkerTakes ==
    /\ args.fn = "ThreadPoolExecutor"
    /\ args.work_queue # <<>>
    /\ IdleThreads > 0
    /\ args' = [args EXCEPT
           !.work_queue = Tail(@),
           !.running = @ \cup {Head(args.work_queue)}]
    /\ UNCHANGED <<ret, commandVars, updaterVars>>

\* deploy_stack of task k returns or raises
TaskEnds(k) ==
    /\ args.fn = "ThreadPoolExecutor"
    /\ k \in args.running
    /\ args' = [args EXCEPT !.running = @ \ {k}, !.done = @ \cup {k}]
    /\ UNCHANGED <<ret, commandVars, updaterVars>>

NextPool ==
    \/ Submit
    \/ WorkerTakes
    \/ \E k \in 1..MaxWidth : TaskEnds(k)

SpecPool == InitPool /\ [][NextPool]_vars

(***************************************************************************)
(* The body of the as_completed loop on response bodies as json.loads      *)
(* gives them.  ret has the futures handled so far; the stack of the k-th   *)
(* future is named k.                                                       *)
(***************************************************************************)
JList(items) == [type |-> "list", items |-> items]
\* iterating a dict yields its keys
JDict(keys) == [type |-> "dict", items |-> [k \in DOMAIN keys |-> [type |-> "str", status |-> None]]]
\* a body that is not JSON is kept as a string; iterating it yields characters
JStr(chars) == [type |-> "str", items |-> [k \in DOMAIN chars |-> [type |-> "str", status |-> None]]]
JNull == [type |-> "null", items |-> <<>>]
JNumber == [type |-> "number", items |-> <<>>]
\* an item that is an object, with its status (None when it has none)
StatusObject(status) == [type |-> "dict", status |-> status]
NumberItem == [type |-> "number", status |-> None]

Iterable(body) == body.type \in {"list", "dict", "str"}

\* [pl.get("status") for pl in response_payload], or that it raises
StatusTexts(body) ==
    IF ~Iterable(body) \/ \E k \in DOMAIN body.items : body.items[k].type # "dict"
    THEN [raised |-> TRUE, texts |-> <<>>]
    ELSE [raised |-> FALSE, texts |-> [k \in DOMAIN body.items |-> body.items[k].status]]

\* the class of Payloads a response body belongs to
PayloadClass(body) ==
    IF StatusTexts(body).raised THEN "not_a_list"
    ELSE IF \E k \in DOMAIN StatusTexts(body).texts : StatusTexts(body).texts[k] = "error"
    THEN "error_item"
    ELSE "ok_list"

ResponseBodies ==
    {JList(<<>>), JList(<<StatusObject("success")>>),
     JList(<<StatusObject("success"), StatusObject("error")>>),
     JList(<<StatusObject(None)>>), JList(<<NumberItem>>),
     JList(<<StatusObject("error"), NumberItem>>),
     JDict(<<>>), JDict(<<"errorMessage">>), JStr(<<>>), JStr(<<"o", "k">>),
     JNull, JNumber}
\* what makes deploy_stack raise
DeployStackErrors == {"invoke_raised", "stack_in_error_state", "never_stable"}

InitCollect ==
    /\ NoCommand
    /\ NoUpdater
    /\ args = [fn |-> "as_completed", successful_stacks |-> {}, failed_stacks |-> <<>>]
    /\ ret = <<>>

\* future.result() returns the response of a deploy_stack whose poll reached
\* a stable state
FutureReturned(body) ==
    /\ args.fn = "as_completed"
    /\ Len(ret) < MaxCalls
    /\ ret' = Append(ret, [end |-> "returned", body |-> body])
    /\ IF Succeeded("returned", PayloadClass(body))
       THEN args' = [args EXCEPT !.successful_stacks = @ \cup {Len(ret) + 1}]
       ELSE args' = [args EXCEPT !.failed_stacks = Append(@, Len(ret) + 1)]
    /\ UNCHANGED <<commandVars, updaterVars>>

\* future.result() raises what deploy_stack raised
FutureRaised(error) ==
    /\ args.fn = "as_completed"
    /\ Len(ret) < MaxCalls
    /\ ret' = Append(ret, [end |-> "raised", body |-> error])
    /\ IF Succeeded("raised", None)
       THEN args' = [args EXCEPT !.successful_stacks = @ \cup {Len(ret) + 1}]
       ELSE args' = [args EXCEPT !.failed_stacks = Append(@, Len(ret) + 1)]
    /\ UNCHANGED <<commandVars, updaterVars>>

NextCollect ==
    \/ \E body \in ResponseBodies : FutureReturned(body)
    \/ \E error \in DeployStackErrors : FutureRaised(error)

SpecCollect == InitCollect /\ [][NextCollect]_vars

(***************************************************************************)
(* create_message on a stack whose parameter P is a "$version" directive,  *)
(* for every repo id and version table of the resolver's specification.     *)
(***************************************************************************)
InitVersionParameter ==
    /\ NoCommand
    /\ NoUpdater
    /\ args \in [fn : {"create_message"}, repo : RepoIds, repo_versions : VersionTables]
    /\ ret = <<>>

\* the loop over parameters.items() of create_message
CallResolveParameters ==
    /\ args.fn = "create_message"
    /\ ret = <<>>
    /\ ret' = <<ResolveParameters(<<<<"P", Version(args.repo)>>>>, 1, <<>>,
                                  args.repo_versions, {}, {})>>
    /\ UNCHANGED <<args, commandVars, updaterVars>>

NextVersionParameter == CallResolveParameters

SpecVersionParameter == InitVersionParameter /\ [][NextVersionParameter]_vars

(***************************************************************************)
(* prepare_messages on the list config["stacks"]: the set of the stack     *)
(* names, then create_message for every entry.  An entry whose stack_name  *)
(* is <<>> has no such key.                                                 *)
(***************************************************************************)
\* the comprehension over s["stack_name"]
StackNamesOfConfig(stacks, environment) ==
    IF \E k \in DOMAIN stacks : stacks[k].stack_name = <<>>
    THEN [error |-> "key_error", names |-> {}]
    ELSE [error |-> "none",
          names |-> {CalcStackName(stacks[k].stack_name, environment) : k \in DOMAIN stacks}]

\* the loop over config["stacks"], from entry k on: retval
RECURSIVE CreateMessages(_, _, _, _, _)
CreateMessages(stacks, k, environment, fs, retval) ==
    IF k > Len(stacks) THEN [error |-> "none", retval |-> retval]
    ELSE IF stacks[k].stack_name = <<>>
    THEN [error |-> "key_error", retval |-> retval]
    ELSE LET m == CreateMessage(stacks[k], <<>>, environment, RepoVersions, fs).out
         IN  IF m.kind = "error" THEN [error |-> m.error, retval |-> retval]
             ELSE CreateMessages(stacks, k + 1, environment, fs,
                                 IF m.kind = "message" THEN Append(retval, m) ELSE retval)

PrepareStacks(stacks, environment, fs) ==
    IF StackNamesOfConfig(stacks, environment).error # "none"
    THEN [error |-> StackNamesOfConfig(stacks, environment).error, retval |-> <<>>]
    ELSE CreateMessages(stacks, 1, environment, fs, <<>>)

StackEntries ==
    [stack_name : {<<>>, <<"s">>, <<"u">>}, template_file : {<<>>, <<"t.yaml">>},
     disabled : BOOLEAN, parameters : {<<>>}]
MaxStacks == 2

InitStacks ==
    /\ NoCommand
    /\ NoUpdater
    /\ \E n \in 1..MaxStacks : \E stacks \in [1..n -> StackEntries] :
          args = [fn |-> "prepare_messages", stacks |-> stacks,
                  environment |-> Environment,
                  fs |-> [template |-> [kind |-> "dict", declared |-> {}],
                          in_cwd |-> TRUE]]
    /\ ret = <<>>

CallPrepareStacks ==
    /\ args.fn = "prepare_messages"
    /\ ret = <<>>
    /\ ret' = <<PrepareStacks(args.stacks, args.environment, args.fs)>>
    /\ UNCHANGED <<args, commandVars, updaterVars>>

NextStacks == CallPrepareStacks

SpecStacks == InitStacks /\ [][NextStacks]_vars

(***************************************************************************)
(* Definitions shared by the properties.  They are stated over the         *)
(* configuration and the history, not over the graph operators above.      *)
(***************************************************************************)
LogIndex == 1..Len(dispatch_log)
DispatchedStacks == {dispatch_log[k][1] : k \in LogIndex}
Finished(s) == task[s] \in {"returned", "raised", "collected"}
FailedSet == Range(failed_stacks)
Accepted == message_generations # <<>>

\* declared dependencies of s that are stacks, and their transitive closure
DeclaredDeps(s) == Range(config.deps[s]) \cap StackNames
RECURSIVE DeclaredClosure(_)
DeclaredClosure(seen) ==
    LET next == seen \cup UNION {DeclaredDeps(m) : m \in seen}
    IN  IF next = seen THEN seen ELSE DeclaredClosure(next)
TransitiveDeps(s) == DeclaredClosure(DeclaredDeps(s))
HasCycle == \E s \in StackNames : s \in TransitiveDeps(s)
Enabled(s) == s \notin config.disabled

\* generation indices (0-based) at which s has a message
GenerationsOf(s) ==
    {k - 1 : k \in {l \in 1..Len(message_generations) : s \in Range(message_generations[l])}}

SetMax(S) == CHOOSE m \in S : \A n \in S : n <= m

\* dependency depth: 0 without dependencies, else 1 + the largest depth of one
RECURSIVE Depth(_)
Depth(s) == IF DeclaredDeps(s) = {} THEN 0
            ELSE 1 + SetMax({Depth(d) : d \in DeclaredDeps(s)})

\* length of the longest chain of dependants above s
Dependants(s) == {t \in StackNames : s \in DeclaredDeps(t)}
RECURSIVE HeightIn(_, _)
HeightIn(dependants, s) ==
    IF dependants[s] = {} THEN 0
    ELSE 1 + SetMax({HeightIn(dependants, t) : t \in dependants[s]})
Heights ==
    LET deps == [t \in StackNames |-> DeclaredDeps(t)]
        dependants == [s \in StackNames |-> {t \in StackNames : s \in deps[t]}]
    IN  [s \in StackNames |-> HeightIn(dependants, s)]

(***************************************************************************)
(* Properties                                                              *)
(***************************************************************************)

\* C1: with no stack filter, every stack for which a worker invocation has
\* been started has all its transitive dependencies in successful_stacks
\* (the set only grows, so this holds from the state of the submit on).
C1_DependenciesSucceeded ==
    stack_name_arg = NoFilter =>
        \A s \in DispatchedStacks : TransitiveDeps(s) \subseteq successful_stacks

\* a stack with a dependency of a dependency has been dispatched, unfiltered
C1_Witness ==
    /\ stack_name_arg = NoFilter
    /\ \E s \in DispatchedStacks : \E d \in DeclaredDeps(s) : DeclaredDeps(d) # {}

\* C2: when a stack of a later generation has been dispatched, every stack
\* dispatched in an earlier generation has finished its invoke-and-poll
\* task; tasks in flight all belong to the current generation.
C2_GenerationsDoNotOverlap ==
    /\ \A k, l \in LogIndex :
          dispatch_log[k][2] < dispatch_log[l][2] => Finished(dispatch_log[k][1])
    /\ \A k \in LogIndex :
          ~Finished(dispatch_log[k][1]) => dispatch_log[k][2] = i

\* stacks of two generations have been dispatched, the later ones in flight
C2_Witness ==
    \E k, l \in LogIndex :
        /\ dispatch_log[k][2] < dispatch_log[l][2]
        /\ task[dispatch_log[l][1]] = "invoking"

\* enabled stacks that transitively depend on a
EnabledDependants(a) == {t \in StackNames : Enabled(t) /\ a \in TransitiveDeps(t)}

\* C3 as claimed: with no filter, no stack depending on a failed stack A is
\* dispatched, and the run ends with the error that a stack depending on A
\* cannot be deployed because A has not been deployed.
C3_Original ==
    stack_name_arg = NoFilter =>
        \A a \in FailedSet :
            /\ EnabledDependants(a) \cap DispatchedStacks = {}
            /\ (pc = "done" /\ EnabledDependants(a) # {}) =>
                  /\ result.kind = "error"
                  /\ result.err.type = "dependency_not_deployed"
                  /\ result.err.stack \in EnabledDependants(a)
                  /\ a \in result.err.names

\* C3 amended: with no filter, no stack depending on a failed stack A is
\* dispatched, and when an enabled stack depends on A the run ends with the
\* error that some stack cannot be deployed, naming that stack's failed
\* dependencies; these include A when A is the only failed stack.
C3_DependentsOfFailedStackBlocked ==
    stack_name_arg = NoFilter =>
        \A a \in FailedSet :
            /\ EnabledDependants(a) \cap DispatchedStacks = {}
            /\ (pc = "done" /\ EnabledDependants(a) # {}) =>
                  /\ result.kind = "error"
                  /\ result.err.type = "dependency_not_deployed"
                  /\ result.err.stack \notin DispatchedStacks
                  /\ result.err.names # {}
                  /\ result.err.names = TransitiveDeps(result.err.stack) \cap FailedSet
                  /\ FailedSet = {a} => a \in result.err.names

\* the run ended on the dependency error after the failure of a stack that
\* has a dependant of a dependant
C3_Witness ==
    /\ stack_name_arg = NoFilter
    /\ pc = "done"
    /\ result.err.type = "dependency_not_deployed"
    /\ \E a \in FailedSet : \E t \in EnabledDependants(a) : t \notin Dependants(a)

\* C4 as claimed: a stack of a later generation is dispatched only if every
\* stack dispatched in an earlier generation succeeded.
C4_Original ==
    \A k, l \in LogIndex :
        dispatch_log[k][2] < dispatch_log[l][2] =>
            dispatch_log[k][1] \in successful_stacks

\* C5: deploy returns without error only if the failure list is empty, and
\* after the last generation a non-empty failure list makes it raise the
\* error that names every failed stack.
C5_FailedStacksReported ==
    /\ result.kind = "success" =>
          failed_stacks = <<>> /\ DispatchedStacks \subseteq successful_stacks
    /\ (pc = "done" /\ Accepted /\ i = Len(message_generations) /\ failed_stacks # <<>>) =>
          /\ result.kind = "error"
          /\ result.err.type = "failed_stacks"
          /\ result.err.names = FailedSet

\* the run ended on the failed-stacks error naming two stacks
C5_Witness ==
    /\ pc = "done"
    /\ result.err.type = "failed_stacks"
    /\ Cardinality(result.err.names) >= 2

\* C6: the handling of a future that raised records that stack as failed and
\* changes nothing else: the run stays in the batch, the other futures keep
\* their state; the batch is left only when every submitted stack has its
\* own outcome, in exactly one of the two accumulators.
C6_ExceptionStaysInItsTask ==
    /\ [](pc = "awaiting" => result.kind = "running")
    /\ [](pc \in {"dispatching", "done"} =>
            \A s \in DispatchedStacks :
                /\ task[s] = "collected"
                /\ (s \in successful_stacks) # (s \in FailedSet))
    /\ [][\A s \in StackNames :
            (task[s] = "raised" /\ task'[s] # "raised") =>
                /\ task' = [task EXCEPT ![s] = "collected"]
                /\ failed_stacks' = Append(failed_stacks, s)
                /\ successful_stacks' = successful_stacks
                /\ pc' = "awaiting"
                /\ result' = result]_vars

\* a batch has been left in which the invocation of one stack raised and a
\* sibling of the same generation succeeded
C6_Witness ==
    /\ pc = "dispatching"
    /\ \E k, l \in LogIndex :
          /\ dispatch_log[k][2] = dispatch_log[l][2]
          /\ dispatch_log[k][1] \in FailedSet
          /\ response[dispatch_log[k][1]] = None
          /\ dispatch_log[l][1] \in successful_stacks

\* C7: in the generation list of an accepted configuration every stack's
\* generation index is strictly greater than that of each stack it depends on.
C7_DependenciesInEarlierGenerations ==
    Accepted =>
        \A s \in StackNames : \A d \in DeclaredDeps(s) :
            \A gs \in GenerationsOf(s) :
                /\ GenerationsOf(d) # {}
                /\ \A gd \in GenerationsOf(d) : gd < gs

\* an accepted configuration with a dependency chain of length two
C7_Witness ==
    /\ Accepted
    /\ \E s \in StackNames : \E d \in DeclaredDeps(s) :
          DeclaredDeps(d) # {} /\ GenerationsOf(s) # {}

C9_CycleIsFatal ==
    (command = "deploy" /\ pc # "start" /\ HasCycle) =>
        /\ pc = "done"
        /\ result.kind = "error"
        /\ result.err.type \in {"cycle", "create_message", "dependency_not_found",
                                "depends_on_disabled"}
        /\ dispatch_log = <<>>
        /\ ~Accepted

\* deploy ended on the cycle error of a configuration with a cycle through
\* two stacks
C9_Witness ==
    /\ pc = "done"
    /\ result.err = CycleError
    /\ \E s, t \in StackNames : s # t /\ t \in DeclaredDeps(s) /\ s \in DeclaredDeps(t)

\* positions <<k, j>> of the dependency entries that name no stack of the
\* configuration or a disabled stack, and the first of them in loop order
BadEntries ==
    {<<k, j>> \in (1..Len(StackOrder)) \X (1..MaxEdges + 1) :
        /\ j <= Len(config.deps[StackOrder[k]])
        /\ \/ config.deps[StackOrder[k]][j] \notin StackNames
           \/ config.deps[StackOrder[k]][j] \in config.disabled}
FirstBadEntry ==
    CHOOSE e \in BadEntries :
        \A f \in BadEntries : e[1] < f[1] \/ (e[1] = f[1] /\ e[2] <= f[2])

\* C10: a dependency that is no stack of the configuration or that is a
\* disabled stack makes deploy end in an error before any worker invocation;
\* unless create_message raised first, the error is the not-found error
\* naming the dependency, respectively the disabled-dependency error naming
\* the depending stack and the disabled stack.
C10_BadDependencyIsFatal ==
    (command = "deploy" /\ pc # "start" /\ BadEntries # {}) =>
        LET s == StackOrder[FirstBadEntry[1]]
            d == config.deps[s][FirstBadEntry[2]]
        IN  /\ pc = "done"
            /\ result.kind = "error"
            /\ dispatch_log = <<>>
            /\ (\A k \in 1..FirstBadEntry[1] : StackOrder[k] \notin config.createFails) =>
                  result.err = IF d \in StackNames THEN DepDisabled(s, d)
                               ELSE DepNotFound(d)

\* deploy ended on the disabled-dependency error for a stack that lists an
\* unknown dependency after the disabled one
C10_Witness ==
    /\ pc = "done"
    /\ \E s \in StackNames :
          /\ Len(config.deps[s]) = 2
          /\ config.deps[s][1] \in config.disabled
          /\ config.deps[s][2] = UnknownName
          /\ result.err = DepDisabled(s, config.deps[s][1])

\* the errors that prepare_messages raises for a configuration
ConfigurationErrorTypes ==
    {"create_message", "dependency_not_found", "depends_on_disabled", "cycle"}
HasConfigurationError == config.createFails # {} \/ BadEntries # {} \/ HasCycle
NothingDispatched == dispatch_log = <<>> /\ \A s \in StackNames : task[s] = "idle"

\* C11: when the configuration has an error for any of its stacks (a stack
\* for which create_message raises, a bad dependency, a cycle), deploy ends in
\* that error with no worker invocation started; and a run that ends in a
\* configuration error has dispatched nothing.
C11_ConfigurationErrorBeforeDispatch ==
    command = "deploy" =>
        /\ (pc # "start" /\ HasConfigurationError) =>
              /\ pc = "done"
              /\ result.kind = "error"
              /\ result.err.type \in ConfigurationErrorTypes
              /\ NothingDispatched
        /\ result.err.type \in ConfigurationErrorTypes => NothingDispatched

\* deploy ended on the error of create_message for the last stack of a
\* configuration whose other stacks are enabled and free of errors
C11_Witness ==
    /\ command = "deploy"
    /\ pc = "done"
    /\ result.err = ConfigError(StackOrder[Len(StackOrder)])
    /\ config.disabled = {}
    /\ BadEntries = {}
    /\ \E s \in StackNames : DeclaredDeps(s) # {}

\* the comparison of two names with one trailing environment cut off each
CutEnvironment(n) ==
    IF Len(n) >= 2 /\ n[Len(n)] \in Range(ENVIRONMENT_PRIORITY)
    THEN SubSeq(n, 1, Len(n) - 1) ELSE n
SameBase(n, f) == CutEnvironment(n) = CutEnvironment(f)
NameOf(s) == BaseName[s] \o <<Environment>>

\* C15 as claimed: for every enabled stack, its base name and its full name
\* as the filter select that stack and no other: dump processes exactly that
\* stack and deploy dispatches exactly that stack.
C15_Original ==
    \A s \in StackNames :
        (Enabled(s) /\ stack_name_arg \in {BaseName[s], NameOf(s)} /\ pc = "done") =>
            /\ command = "dump" => dumped = <<NameOf(s)>>
            /\ command = "deploy" => DispatchedStacks = {s}

\* the filter is given and matches no enabled stack
FilterMatchesNoStack ==
    /\ stack_name_arg # NoFilter
    /\ \A s \in StackNames : Enabled(s) => ~SameBase(NameOf(s), stack_name_arg)

\* C16: a filter that matches no enabled stack under the comparison that
\* cuts a trailing environment makes the run fatal with nothing dispatched
\* or dumped: deploy raises before any worker invocation, dump exits with
\* code 1.
C16_UnmatchedFilterIsFatal ==
    (FilterMatchesNoStack /\ pc # "start") =>
        /\ pc = "done"
        /\ result.kind = "error"
        /\ NothingDispatched
        /\ dumped = <<>>
        /\ command = "dump" => result.err = SystemExit(1)
        /\ command = "deploy" => result.err.type = "stack_not_found"

\* dump exited on a filter that is the base name of a disabled stack
C16_Witness ==
    /\ command = "dump"
    /\ pc = "done"
    /\ result.err = SystemExit(1)
    /\ \E s \in config.disabled : stack_name_arg = BaseName[s]

\* C17: with a filter, deploy never raises the dependency error; only the
\* target is dispatched, it is dispatched while successful_stacks holds none
\* of its dependencies, and the run does not end without its dispatch.
C17_FilterSkipsDependencyCheck ==
    (command = "deploy" /\ stack_name_arg # NoFilter) =>
        /\ result.err.type # "dependency_not_deployed"
        /\ DispatchedStacks \subseteq {stack_name}
        /\ \A s \in DispatchedStacks : TransitiveDeps(s) \cap successful_stacks = {}
        /\ (pc = "done" /\ Accepted) => DispatchedStacks = {stack_name}
        /\ Accepted => SameBase(NameOf(stack_name), stack_name_arg)

\* a filtered run has ended in success for a target that has a dependency
\* of a dependency
C17_Witness ==
    /\ command = "deploy"
    /\ stack_name_arg # NoFilter
    /\ result.kind = "success"
    /\ \E s \in DispatchedStacks : \E d \in DeclaredDeps(s) : DeclaredDeps(d) # {}

\* C19: no stack has two entries in the dispatch history, so a failed stack
\* is not dispatched again; a run without filter that ends in success has
\* one entry for every enabled stack, under the name made of its stack_name
\* and the environment, and none for a disabled stack.
C19_EveryStackStartedOnce ==
    /\ \A k, l \in LogIndex :
          (dispatch_log[k][1] = dispatch_log[l][1] \/ dispatch_log[k][3] = dispatch_log[l][3])
              => k = l
    /\ \A s \in FailedSet : Cardinality({k \in LogIndex : dispatch_log[k][1] = s}) = 1
    /\ (command = "deploy" /\ stack_name_arg = NoFilter /\ result.kind = "success") =>
          /\ DispatchedStacks = {s \in StackNames : Enabled(s)}
          /\ \A k \in LogIndex :
                dispatch_log[k][3] = BaseName[dispatch_log[k][1]] \o <<Environment>>

\* an unfiltered run has ended in success with a disabled stack and three
\* dispatched ones, over two generations at least
C19_Witness ==
    /\ command = "deploy"
    /\ stack_name_arg = NoFilter
    /\ result.kind = "success"
    /\ config.disabled # {}
    /\ Cardinality(DispatchedStacks) = 3
    /\ \E k, l \in LogIndex : dispatch_log[k][2] # dispatch_log[l][2]

\* C13: what resolve_version_with_hash_support returns is, for an id
\* without "#", the first 7 characters of the entry under that key or
\* not-found; for an id with "#", the whole entry under the id itself if the
\* table has it, else the whole entry under the part after the last "#" if
\* the table has it, else not-found.
C13_ResolverAgreesWithReference ==
    (args.fn = "resolve_version_with_hash_support" /\ ret # <<>>) =>
        LET t == args.repo_versions
            id == args.repo
            component == <<id[Len(id)]>>
            expected ==
                IF Len(id) = 1
                THEN IF id \in DOMAIN t
                     THEN Found([k \in 1..(IF Len(t[id]) < 7 THEN Len(t[id]) ELSE 7) |-> t[id][k]])
                     ELSE NotFound
                ELSE IF id \in DOMAIN t THEN Found(t[id])
                ELSE IF component \in DOMAIN t THEN Found(t[component])
                ELSE NotFound
        IN  ret[1] = expected

\* an id with two "#" was resolved on a table that has the id itself and
\* its last part with different entries; the exact entry was returned whole
C13_Witness ==
    /\ args.fn = "resolve_version_with_hash_support"
    /\ ret # <<>>
    /\ Len(args.repo) = 3
    /\ {args.repo, <<args.repo[3]>>} \subseteq DOMAIN args.repo_versions
    /\ args.repo_versions[args.repo] # args.repo_versions[<<args.repo[3]>>]
    /\ ret[1] = Found(args.repo_versions[args.repo])
    /\ Len(ret[1].value) > 7

\* the name without its environment, as the comparison takes it
BaseOf(n) == CutEnvironment(n)

\* C14 as claimed: compare_stack_names is symmetric; a name with a known
\* environment as suffix matches the same name without it, and the other way
\* round; a name matches itself; names whose base names differ do not match.
C14_Original ==
    (args.fn = "compare_stack_names" /\ Len(ret) = 2) =>
        /\ ret[1] = ret[2]
        /\ args.a = args.b => ret[1]
        /\ (\E e \in Range(ENVIRONMENT_PRIORITY) : args.a = args.b \o <<e>>) =>
              ret[1] /\ ret[2]
        /\ BaseOf(args.a) # BaseOf(args.b) => ~ret[1]

\* the stack definition of the call under study, read on its own: the
\* names its template declares, the names it supplies, the names the
\* globals can fill in, and whether each supplied value can be resolved
DeclaredNames == args.fs.template.declared
SuppliedNames == {args.definition.parameters[k][1] : k \in DOMAIN args.definition.parameters}
AfterBackfill == SuppliedNames \cup (DeclaredNames \cap DOMAIN args.globals)
StillMissing == DeclaredNames \ AfterBackfill
Undeclared == SuppliedNames \ DeclaredNames
Resolvable(v) ==
    CASE v.type = "ref" -> v.val[1] \in DOMAIN args.globals
      [] v.type = "sub" ->
            /\ \E k \in DOMAIN v.val : v.val[k] \in Placeholders
            /\ \A k \in DOMAIN v.val : v.val[k] \in Placeholders =>
                  IdentifierOf(v.val[k]) \in DOMAIN args.globals
      [] v.type = "version" -> v.val \in DOMAIN args.repo_versions
      [] v.type = "dict" -> FALSE
      [] OTHER -> TRUE
ReachesParameterCheck ==
    /\ args.definition.stack_name # <<>>
    /\ ~args.definition.disabled
    /\ args.fs.template.kind = "dict"
    /\ \A k \in DOMAIN args.definition.parameters :
          Resolvable(args.definition.parameters[k][2])

\* C12: a message that create_message returns has exactly the declared names
\* of the template as its parameter keys; when the parameters of an enabled
\* stack are resolved and, after the backfill from the globals, a declared
\* name is unsupplied or a supplied name is undeclared, create_message raises
\* the missing-parameters error with exactly the unsupplied declared names or
\* the superfluous-parameters error with exactly the undeclared supplied
\* names, and it raises neither of them with other names or in other cases.
C12_ParameterKeysAreDeclaredNames ==
    (args.fn = "create_message" /\ ret # <<>>) =>
        /\ ret[1].kind = "message" =>
              {it[1] : it \in ret[1].parameters} = DeclaredNames
        /\ (ReachesParameterCheck /\ StillMissing \cup Undeclared # {}) =>
              /\ ret[1].kind = "error"
              /\ ret[1].error \in {"missing_parameters", "superfluous_parameters"}
        /\ ret[1].error = "missing_parameters" =>
              StillMissing # {} /\ ret[1].names = StillMissing
        /\ ret[1].error = "superfluous_parameters" =>
              Undeclared # {} /\ ret[1].names = Undeclared

\* create_message raised the superfluous-parameters error for a stack one of
\* whose declared parameters was filled in from the globals
C12_Witness ==
    /\ args.fn = "create_message"
    /\ ret # <<>>
    /\ ret[1].error = "superfluous_parameters"
    /\ ret[1].names = {"P"}
    /\ "G" \in DeclaredNames \ SuppliedNames

Overridden == {args.override_globals[k][1] : k \in DOMAIN args.override_globals}
OverrideOf(key) ==
    args.override_globals[CHOOSE k \in DOMAIN args.override_globals :
                              args.override_globals[k][1] = key][2]
ConsumingParameter == IF args.way = "backfill" THEN args.consumed ELSE "P"
ParameterOf(message) ==
    (CHOOSE it \in message.parameters : it[1] = ConsumingParameter)[2]
ThroughWay(v) == IF args.way = "sub" THEN Str(<<"x">> \o v.val) ELSE v
MessageReturned ==
    /\ args.fn = "prepare_messages"
    /\ ret # <<>>
    /\ ret[1].out.kind = "message"

\* C20 as claimed: when the override file supplies the key through which a
\* parameter is resolved, the parameter gets the value of the override file,
\* for every key, Environment included.
C20_Original ==
    (MessageReturned /\ args.consumed \in Overridden) =>
        ParameterOf(ret[1].out) = ThroughWay(OverrideOf(args.consumed))

\* C20 amended: the parameter gets the value of the override file for every
\* key other than Environment and __poemai_timestamp__, whatever the
\* configuration declares for the key; through these two keys it gets the
\* environment of the configuration and the time of the run, which
\* prepare_messages stores after the override file was applied.
C20_OverrideWinsExceptInjectedKeys ==
    MessageReturned =>
        /\ (args.consumed \in Overridden \ {"Environment", POEMAI_TIMESTAMP_KEY}) =>
              ParameterOf(ret[1].out) = ThroughWay(OverrideOf(args.consumed))
        /\ args.consumed = "Environment" =>
              ParameterOf(ret[1].out) = ThroughWay(Str(<<Environment>>))
        /\ args.consumed = POEMAI_TIMESTAMP_KEY =>
              ParameterOf(ret[1].out) = ThroughWay(Str(<<"now">>))

\* a message was returned whose parameter is substituted from the override
\* value of G, for which the configuration declares a version directive of a
\* repository the version table does not have
C20_Witness ==
    /\ MessageReturned
    /\ args.way = "sub"
    /\ args.consumed = "G"
    /\ "G" \in Overridden
    /\ \E k \in DOMAIN args.config_globals :
          args.config_globals[k] = <<"G", Version(<<"m">>)>>
    /\ ParameterOf(ret[1].out) = Str(<<"x", "o", "G">>)

\* the globals prepare_messages is called with, what they declare for a key,
\* and the keys whose value is not replaced by prepare_messages itself
InputGlobals == OverrideGlobals(args.config_globals, args.override_globals)
DeclaredAs(key) == DictGet(InputGlobals, key)
DeclaredKeys == DictKeys(InputGlobals) \ {"Environment", POEMAI_TIMESTAMP_KEY}
IndexOf(key) == CHOOSE k \in DOMAIN InputGlobals : InputGlobals[k][1] = key
\* the version string a version directive stands for
ResolvedVersion(key) ==
    LET repo == DeclaredAs(key).val
    IN  Str(IF Len(repo) > 1 THEN args.repo_versions[repo]
            ELSE ShortVersion(args.repo_versions[repo]))
GlobalsResolved ==
    /\ args.fn = "prepare_messages"
    /\ ret # <<>>
    /\ ret[1].error = "none"
ResolvedAs(key) == DictGet(ret[1].globals, key)

\* C21: when the globals were resolved, a sub directive whose identifiers
\* are all declared by version directives is the pattern with the resolved
\* version strings in the place of the placeholders, and a ref directive
\* whose target is declared by a version or a sub directive is the string
\* its target was resolved to, wherever the directives stand in the mapping.
C21_VersionThenSubThenRef ==
    GlobalsResolved =>
        \A key \in DeclaredKeys :
            /\ (/\ DeclaredAs(key).type = "sub"
                /\ \A id \in GetIdentifiers(DeclaredAs(key).val) :
                      id \in DeclaredKeys /\ DeclaredAs(id).type = "version") =>
                  ResolvedAs(key) =
                      Str(SafeSubstitute(DeclaredAs(key).val,
                              [id \in GetIdentifiers(DeclaredAs(key).val) |->
                                  ResolvedVersion(id)]))
            /\ (/\ DeclaredAs(key).type = "ref"
                /\ DeclaredAs(key).val[1] \in DeclaredKeys
                /\ DeclaredAs(DeclaredAs(key).val[1]).type \in {"version", "sub"}) =>
                  LET target == DeclaredAs(key).val[1]
                  IN  /\ ResolvedAs(key) = ResolvedAs(target)
                      /\ ResolvedAs(key).type = "str"
                      /\ DeclaredAs(target).type = "version" =>
                            ResolvedAs(key) = ResolvedVersion(target)

\* the globals were resolved where G, declared before N, is a sub directive
\* that names N and N is a version directive
C21_Witness ==
    /\ GlobalsResolved
    /\ {"G", "N"} \subseteq DeclaredKeys
    /\ IndexOf("G") < IndexOf("N")
    /\ DeclaredAs("G") = Sub(<<"x", "$N">>)
    /\ DeclaredAs("N").type = "version"
    /\ ResolvedAs("G") = Str(<<"x">> \o ShortVersion(RepoVersions[<<"r">>]))

\* C22 as claimed: a configuration without environment setting always ends
\* prepare_messages with the missing-environment error.
C22_Original ==
    (args.fn = "prepare_messages" /\ ret # <<>> /\ ~args.has_environment) =>
        ret[1].error = "environment_not_found"

\* the last call of the updater: its outcome, the entries of the two
\* sections before and after it, and its arguments without the whitespace
\* around them
UpdateCalled == args.fn \in {"update_regular_build", "update_hash_based_build"}
Last == ret[Len(ret)]
EntriesOf(section) == IF section.kind = "dict" THEN section.items ELSE NoItems
Entries(d) == [versions |-> EntriesOf(d.versions),
               hash_based_lambdas |-> EntriesOf(d.hash_based_lambdas)]
EntryOf(entries, key) == IF key \in DOMAIN entries THEN entries[key] ELSE NoValue
Trimmed(text) ==
    LET inked == {k \in 1..Len(text) : text[k] # " "}
    IN  IF inked = {} THEN <<>>
        ELSE SubSeq(text, CHOOSE k \in inked : \A l \in inked : k <= l,
                          CHOOSE k \in inked : \A l \in inked : l <= k)
\* the strings of the versions section of a manifest, by lambda reference
RequestedLambdas ==
    IF args.manifest_data.kind = "dict" /\ args.manifest_data.versions.kind = "dict"
    THEN {<<args.upstream_repo \o <<"#">> \o n, args.manifest_data.versions.items[n]>> :
             n \in {m \in DOMAIN args.manifest_data.versions.items :
                       args.manifest_data.versions.items[m].type = "str"}}
    ELSE {}
\* what the call asks for is what the data had before the call
RequestedStored ==
    IF args.fn = "update_regular_build"
    THEN EntryOf(Entries(args.data).versions, args.upstream_repo) = Str(Trimmed(args.value))
    ELSE /\ EntryOf(Entries(args.data).hash_based_lambdas, args.upstream_repo)
               = Str(args.value)
         /\ \A rq \in RequestedLambdas :
               EntryOf(Entries(args.data).versions, rq[1]) = rq[2]

\* C23: a call returns True exactly when it saved the file, and then the
\* entries of the data changed and the file holds the new data; it returns
\* False only when what it asks for was stored already, and then neither the
\* entries nor the file changed; a call that repeats the call before it (same
\* arguments, same downloaded manifest), which returned, gives False and
\* leaves the file as it was.
C23_TrueIffChangedAndSaved ==
    UpdateCalled =>
        /\ Last.outcome = "true" <=> Last.saved
        /\ Last.saved =>
              /\ versions_file = FileWith(data)
              /\ versions_file # args.versions_file
              /\ Entries(data) # Entries(args.data)
              /\ ~RequestedStored
        /\ Last.outcome = "false" =>
              /\ versions_file = args.versions_file
              /\ Entries(data) = Entries(args.data)
              /\ RequestedStored
        /\ (args.repeated /\ ret[Len(ret) - 1].outcome # "raised") =>
              /\ Last.outcome = "false"
              /\ versions_file = args.versions_file

\* a hash-based update whose manifest has lambda versions returned True and
\* its repetition returned False
C23_Witness ==
    /\ UpdateCalled
    /\ args.fn = "update_hash_based_build"
    /\ args.repeated
    /\ RequestedLambdas # {}
    /\ ret[Len(ret) - 1].outcome = "true"
    /\ Last.outcome = "false"

\* key is a component of the repository: its name, "#", a lambda name
IsComponentOf(key, upstream_repo) ==
    /\ Len(key) > Len(upstream_repo) + 1
    /\ SubSeq(key, 1, Len(upstream_repo)) = upstream_repo
    /\ key[Len(upstream_repo) + 1] = "#"
SameEntry(section, key) ==
    EntryOf(Entries(data)[section], key) = EntryOf(Entries(args.data)[section], key)
KeysOf(section) == DOMAIN Entries(data)[section] \cup DOMAIN Entries(args.data)[section]

\* C24: update_regular_build leaves every entry of versions under another
\* key and every entry of hash_based_lambdas as it was; update_hash_based_build
\* leaves the manifest URL of every other repository and every entry of
\* versions that is no component of the repository as it was.  No such
\* entry is added or removed either.
C24_OnlyOwnEntriesChange ==
    UpdateCalled =>
        IF args.fn = "update_regular_build"
        THEN /\ \A key \in KeysOf("versions") \ {args.upstream_repo} :
                    SameEntry("versions", key)
             /\ Entries(data).hash_based_lambdas = Entries(args.data).hash_based_lambdas
        ELSE /\ \A key \in KeysOf("hash_based_lambdas") \ {args.upstream_repo} :
                    SameEntry("hash_based_lambdas", key)
             /\ \A key \in KeysOf("versions") :
                    ~IsComponentOf(key, args.upstream_repo) => SameEntry("versions", key)

\* a regular update changed the version of q in a file that has a version
\* of r and manifest URLs
C24_Witness ==
    /\ UpdateCalled
    /\ args.fn = "update_regular_build"
    /\ args.upstream_repo = <<"q">>
    /\ Last.outcome = "true"
    /\ <<"r">> \in DOMAIN Entries(args.data).versions
    /\ <<"q">> \in DOMAIN Entries(args.data).versions
    /\ Entries(args.data).hash_based_lambdas # NoItems

Untouched ==
    /\ Last.outcome = "raised"
    /\ ~Last.saved
    /\ data = args.data
    /\ versions_file = args.versions_file

\* C25 as claimed: update_regular_build raises for every SHA that contains
\* a character that is no hexadecimal digit.
C25_Original ==
    (/\ UpdateCalled
     /\ args.fn = "update_regular_build"
     /\ (\/ args.upstream_repo = <<>>
         \/ args.value = <<>>
         \/ Range(args.value) \ HexDigits # {})) => Untouched

\* C25 amended: update_regular_build raises for a repository name that is
\* empty once the whitespace around it is removed and for a SHA that, once
\* the whitespace around it is removed, is empty or has a character that is
\* no hexadecimal digit; update_hash_based_build raises for a repository
\* name or a manifest URL that is empty once the whitespace around it is
\* removed.  The data and the file are then as before the call.
C25_InvalidArgumentsRaise ==
    UpdateCalled =>
        IF args.fn = "update_regular_build"
        THEN (\/ Trimmed(args.upstream_repo) = <<>>
              \/ Trimmed(args.value) = <<>>
              \/ Range(Trimmed(args.value)) \ HexDigits # {}) => Untouched
        ELSE (\/ Trimmed(args.upstream_repo) = <<>>
              \/ Trimmed(args.value) = <<>>) => Untouched

\* a hash-based update with a manifest URL of whitespace only was refused by
\* an updater whose data has no versions section
C25_Witness ==
    /\ UpdateCalled
    /\ args.fn = "update_hash_based_build"
    /\ args.value = <<" ">>
    /\ args.upstream_repo = <<"r">>
    /\ args.data.versions.kind = "absent"
    /\ Last.outcome = "raised"

DownloadFailed ==
    /\ UpdateCalled
    /\ args.fn = "update_hash_based_build"
    /\ args.manifest_data = NoManifest
    /\ Trimmed(args.upstream_repo) # <<>>
    /\ Trimmed(args.value) # <<>>

\* C26 as claimed: when the manifest cannot be downloaded, the versions
\* section of the data is what it was before the call.
C26_Original ==
    DownloadFailed => data.versions = args.data.versions

\* C26 amended: when the manifest cannot be downloaded, the call returns,
\* every entry of versions is as before (a versions section that was missing
\* or no mapping is now an empty mapping), hash_based_lambdas has the
\* manifest URL for the repository and its other entries as before, and the
\* call returns True exactly when the repository had another manifest URL or
\* none.
C26_DownloadFailureKeepsVersionEntries ==
    DownloadFailed =>
        /\ Last.outcome \in {"true", "false"}
        /\ data.versions = IF args.data.versions.kind = "dict" THEN args.data.versions
                           ELSE Dict(NoItems)
        /\ DOMAIN Entries(data).hash_based_lambdas =
              DOMAIN Entries(args.data).hash_based_lambdas \cup {args.upstream_repo}
        /\ \A key \in DOMAIN Entries(data).hash_based_lambdas :
              Entries(data).hash_based_lambdas[key] =
                  IF key = args.upstream_repo THEN Str(args.value)
                  ELSE Entries(args.data).hash_based_lambdas[key]
        /\ Last.outcome = "true" <=>
              EntryOf(Entries(args.data).hash_based_lambdas, args.upstream_repo)
                  # Str(args.value)

\* the download failed for a repository whose manifest URL changed, in a
\* file that has versions and the manifest URL of another repository
C26_Witness ==
    /\ DownloadFailed
    /\ Last.outcome = "true"
    /\ args.upstream_repo = <<"r">>
    /\ <<"q">> \in DOMAIN Entries(args.data).hash_based_lambdas
    /\ <<"r">> \in DOMAIN Entries(args.data).hash_based_lambdas
    /\ Entries(args.data).versions # NoItems

\* C27: invoke_lambda_with_backoff calls the worker at most 8 times; every
\* call but the last one ended with the rate-limit error and was followed
\* by a sleep of 2^k seconds (k the number of the attempt, from 0) plus less
\* than a second; the function goes on exactly after a rate-limit error of
\* one of the first 7 calls, raises exactly after another exception or the
\* rate-limit error of the 8th call, and returns after a response.
C27_AtMostEightAttempts ==
    args.fn = "invoke_lambda_with_backoff" =>
        /\ Len(ret) <= 8
        /\ \A k \in 1..(Len(ret) - 1) : ret[k] = TooManyRequestsException
        /\ Len(args.slept) = IF args.end = "running" THEN Len(ret) ELSE Len(ret) - 1
        /\ \A k \in 1..Len(args.slept) :
              /\ args.slept[k] >= 1000 * 2 ^ (k - 1)
              /\ args.slept[k] < 1000 * 2 ^ (k - 1) + 1000
        /\ ret # <<>> =>
              /\ args.end = "running" <=>
                    (ret[Len(ret)] = TooManyRequestsException /\ Len(ret) < 8)
              /\ args.end = "raised" <=>
                    \/ ret[Len(ret)] = OtherException
                    \/ (ret[Len(ret)] = TooManyRequestsException /\ Len(ret) = 8)
              /\ args.end = "returned" <=> ret[Len(ret)] \in Payloads

\* the rate-limit error of the 8th call was raised after seven sleeps
C27_Witness ==
    /\ args.fn = "invoke_lambda_with_backoff"
    /\ Len(ret) = 8
    /\ ret[8] = TooManyRequestsException
    /\ args.end = "raised"
    /\ Len(args.slept) = 7
    /\ args.slept[7] >= 64000

TerminalStatuses == SuccessStatuses \cup ErrorStatuses

\* C28: wait_for_stack_stable_state makes at most 30 queries; it has
\* returned exactly when the last query reported UPDATE_COMPLETE or
\* CREATE_COMPLETE, which it returns; it has raised exactly when the last
\* query raised, or reported one of the five error statuses, or was the 30th
\* and reported any other status; otherwise it goes on.
C28_AtMostThirtyQueries ==
    args.fn = "wait_for_stack_stable_state" =>
        /\ args.queries <= 30
        /\ args.end = "returned" <=>
              (args.queries > 0 /\ args.error = None
                  /\ args.stack_status \in SuccessStatuses)
        /\ args.end = "returned" => ret = <<args.stack_status>>
        /\ args.end = "raised" <=>
              \/ args.error = "query_raised"
              \/ args.stack_status \in ErrorStatuses
              \/ (args.queries = 30 /\ args.stack_status \notin TerminalStatuses)
        /\ args.error = "error_state" => args.stack_status \in ErrorStatuses
        /\ args.error = "never_stable" =>
              (args.queries = 30 /\ args.stack_status \notin TerminalStatuses)
        /\ args.end = "running" => args.queries < 30

\* the 30th query reported a status that is none of the known ones and the
\* function raised
C28_Witness ==
    /\ args.fn = "wait_for_stack_stable_state"
    /\ args.queries = 30
    /\ args.stack_status = "DELETE_FAILED"
    /\ args.end = "raised"
    /\ args.error = "never_stable"

\* C29: every deploy run whose threads go on ends, with success or with a
\* fatal error.
C29_DeployEnds ==
    (command = "deploy") ~> (pc = "done" /\ result.kind \in {"success", "error"})

\* a deploy run of more than one generation ended after a stack had
\* succeeded and a stack had failed
C29_Witness ==
    /\ command = "deploy"
    /\ pc = "done"
    /\ result.kind = "error"
    /\ i > 1
    /\ successful_stacks # {}
    /\ failed_stacks # <<>>

\* the position in dispatch_log of a dispatched stack
LogPosition(s) == CHOOSE k \in LogIndex : dispatch_log[k][1] = s
Recorded(s) == s \in successful_stacks \/ s \in FailedSet

\* C30: whatever the order in which the tasks of a generation end, a
\* dispatched stack is recorded when its future is handled, once, in the
\* success set or in the failure list according to its outcome, and never in
\* both; when a generation is left every dispatched stack is recorded.
C30_RecordedExactlyOnce ==
    command = "deploy" =>
        /\ successful_stacks \cap FailedSet = {}
        /\ \A k, l \in 1..Len(failed_stacks) :
               failed_stacks[k] = failed_stacks[l] => k = l
        /\ Cardinality(successful_stacks) + Len(failed_stacks) =
               Cardinality({s \in DispatchedStacks : task[s] = "collected"})
        /\ \A s \in StackNames :
               /\ Recorded(s) <=> (s \in DispatchedStacks /\ task[s] = "collected")
               /\ s \in successful_stacks => response[s] = "ok_list"
               /\ s \in FailedSet => response[s] # "ok_list"
        /\ pc # "awaiting" => \A s \in DispatchedStacks : Recorded(s)

\* in one generation two failures were recorded in the reverse of the order
\* of submission, a success was recorded too and a task is still running
C30_Witness ==
    /\ command = "deploy"
    /\ pc = "awaiting"
    /\ Len(failed_stacks) = 2
    /\ LogPosition(failed_stacks[1]) > LogPosition(failed_stacks[2])
    /\ dispatch_log[LogPosition(failed_stacks[1])][2] =
           dispatch_log[LogPosition(failed_stacks[2])][2]
    /\ successful_stacks # {}
    /\ \E s \in DispatchedStacks : task[s] \in {"invoking", "polling"}

\* C31 as stated: every stack of a generation has a worker of its own, so
\* a submitted task never waits for another task to end: while a task is in
\* the queue a worker thread is idle.
C31_Original ==
    args.fn = "ThreadPoolExecutor" =>
        (args.work_queue # <<>> => Cardinality(args.running) < args.num_threads)

\* the body is a list of status objects none of which has status error
IsCleanStatusList(body) ==
    /\ body.type = "list"
    /\ \A k \in DOMAIN body.items :
          body.items[k].type = "dict" /\ body.items[k].status # "error"

\* C32 as stated: a handled future is recorded once; it is recorded as
\* succeeded exactly when deploy_stack returned, hence its poll reached a
\* success state, and the response body is a list of status objects none of
\* which has status error, and as failed in every other case.
C32_Original ==
    args.fn = "as_completed" =>
        \A k \in 1..Len(ret) :
           /\ k \in args.successful_stacks <=>
                 (ret[k].end = "returned" /\ IsCleanStatusList(ret[k].body))
           /\ k \in Range(args.failed_stacks) <=> k \notin args.successful_stacks

\* the configuration reduced to its enabled stacks
EnabledStacks == {s \in StackNames : Enabled(s)}
EnabledDeps(s) == IF Enabled(s) THEN Range(config.deps[s]) ELSE {}
EnabledHeights ==
    LET dependants == [s \in StackNames |-> {t \in EnabledStacks : s \in EnabledDeps(t)}]
    IN  [s \in StackNames |-> HeightIn(dependants, s)]
RefusedForEnabledStack ==
    \/ \E s \in EnabledStacks : s \in config.createFails
    \/ \E s \in EnabledStacks : \E d \in EnabledDeps(s) :
          d \notin StackNames \/ ~Enabled(d)
    \/ \E s \in EnabledStacks : s \in TransitiveDeps(s)

\* C33 as stated: the graph of an accepted configuration has the enabled
\* stacks as its nodes and no edge of a disabled stack, an enabled stack's
\* generation is the one it has among the enabled stacks alone, and a
\* configuration is refused only for what an enabled stack declares.
C33_Original ==
    (command = "deploy" /\ pc # "start") =>
        /\ Accepted =>
              /\ Range(dependency_graph.nodes) = EnabledStacks
              /\ \A s \in StackNames : ~Enabled(s) => dependency_graph.adj[s] = <<>>
              /\ \A s \in EnabledStacks :
                    GenerationsOf(s) =
                       {SetMax({EnabledHeights[t] : t \in EnabledStacks}) - EnabledHeights[s]}
        /\ ~Accepted => RefusedForEnabledStack

\* the keys the directive declared for key refers to
RefersTo(key) ==
    IF DeclaredAs(key).type = "ref" THEN {DeclaredAs(key).val[1]}
    ELSE IF DeclaredAs(key).type = "sub" THEN GetIdentifiers(DeclaredAs(key).val)
    ELSE {}
RECURSIVE RefersClosure(_)
RefersClosure(seen) ==
    LET next == seen \cup UNION {RefersTo(k) : k \in seen \cap DeclaredKeys}
    IN  IF next = seen THEN seen ELSE RefersClosure(next)
InDirectiveCycle(key) == key \in RefersClosure(RefersTo(key))
\* the text has the repr of a directive in it
HasDirectiveText(v) == "{" \in Range(v.val)

\* C34 as stated: when the three passes ended without error every global
\* declared by a version, sub or ref directive holds a string, and the
\* string has no unresolved directive in it.
C34_Original ==
    GlobalsResolved =>
        \A key \in DeclaredKeys :
            DeclaredAs(key).type \in {"version", "sub", "ref"} =>
                ResolvedAs(key).type = "str" /\ ~HasDirectiveText(ResolvedAs(key))

\* C35 as stated: when a declared directive refers to itself, directly or
\* through other directives, prepare_messages ends with an error.
C35_Original ==
    (/\ args.fn = "prepare_messages"
     /\ ret # <<>>
     /\ \E key \in DeclaredKeys : InDirectiveCycle(key)) =>
        ret[1].error # "none"

\* the globals that the directive of another global names
NamedByGlobals == UNION {RefersTo(key) \ {key} : key \in DeclaredKeys}

\* C36 as stated: when the messages were prepared, the globals reported as
\* unused are exactly those that neither the stack's parameters consume nor
\* the directive of a global names, the timestamp and Environment left out.
C36_Original ==
    (GlobalsResolved /\ ret[1].out.kind = "message") =>
        ret[1].unused =
            DictKeys(ret[1].globals)
                \ ({args.consumed} \cup NamedByGlobals
                     \cup {"Environment", POEMAI_TIMESTAMP_KEY})

\* the keys of the globals when the passes start
KeysAtResolution ==
    DictKeys(InputGlobals) \cup {POEMAI_TIMESTAMP_KEY}
        \cup (IF args.has_environment THEN {"Environment"} ELSE {})

\* C37 as stated, for the sub directive of a global: when its template has
\* no identifier, or an identifier that is not a key of the globals,
\* prepare_messages ends with an error.
C37_Original ==
    (/\ args.fn = "prepare_messages"
     /\ ret # <<>>
     /\ \E key \in DeclaredKeys :
           /\ DeclaredAs(key).type = "sub"
           /\ \/ GetIdentifiers(DeclaredAs(key).val) = {}
              \/ ~(GetIdentifiers(DeclaredAs(key).val) \subseteq KeysAtResolution)) =>
        ret[1].error # "none"

\* the entry the resolver's lookup selects for an id it finds
SelectedIdentifier(repo, repo_versions) ==
    IF repo \in DOMAIN repo_versions THEN repo_versions[repo]
    ELSE repo_versions[<<repo[Len(repo)]>>]

\* C38 as stated: the version directive of a parameter is resolved exactly
\* when resolve_version_with_hash_support finds the id, to the first 7
\* characters of the entry the resolver selects, and is fatal otherwise.
C38_Original ==
    (args.fn = "create_message" /\ ret # <<>>) =>
        LET r == ResolveVersionWithHashSupport(args.repo, args.repo_versions)
        IN  /\ ret[1].error = "none" <=> r.found
            /\ ret[1].error = "version_not_found" <=> ~r.found
            /\ r.found =>
                  ret[1].acc =
                     {<<"P", Str(ShortVersion(SelectedIdentifier(args.repo,
                                                                args.repo_versions)))>>}

\* the entries of the configuration that have a stack_name
NamedEntries == SelectSeq(args.stacks, LAMBDA st : st.stack_name # <<>>)

\* C39 as stated: with an entry that has no stack_name, prepare_messages
\* succeeds and returns the messages of the configuration without that entry.
C39_Original ==
    (/\ args.fn = "prepare_messages"
     /\ "stacks" \in DOMAIN args
     /\ ret # <<>>
     /\ \E k \in DOMAIN args.stacks : args.stacks[k].stack_name = <<>>) =>
        /\ ret[1].error = "none"
        /\ ret[1].retval = PrepareStacks(NamedEntries, args.environment, args.fs).retval

====
